---- MODULE Spec2Model ----
(***************************************************************************)
(* State-machine model of the learning-management application's core      *)
(* logic (src/app.py, src/models.py): the rule-based questionnaire        *)
(* (seed reconciler, scoring engine, /ai-test), the quiz attempt          *)
(* lifecycle (start_test, submit_test) and the homework submissions       *)
(* (homework_submit, grade_homework).                                      *)
(*                                                                         *)
(* Tables are sets of rows (records keyed by an integer id), the Flask     *)
(* session is a record, and every request handler is one action.  The     *)
(* last request and its outcome are kept in resp so that properties can    *)
(* speak about what a handler was given and what it returned.             *)
(***************************************************************************)
EXTENDS Integers, Sequences, FiniteSets, TLC

VARIABLES
    aiQuestions,     \* table ai_question: rows [id, text]
    aiAnswers,       \* table ai_answer: rows [id, question_id, text, scores]
    aiResults,       \* table ai_result: rows [id, user_id, scores, top_combinations]
    attempts,        \* table attempt: rows [id, test_id, student_id, started_at, finished_at, score]
    attemptAnswers,  \* table attempt_answer: rows [id, attempt_id, question_id, option_id]
    submissions,     \* table homework_submission
    uploads,         \* file names stored in HOMEWORK_UPLOAD_FOLDER
    session,         \* the browser's Flask session
    now,             \* the clock (datetime.utcnow), in abstract ticks
    published,       \* the identifiers of the tests whose is_published is set
    inflight,        \* requests being served statement by statement, by slot
    resp             \* the last request and its outcome

vars == <<aiQuestions, aiAnswers, aiResults, attempts, attemptAnswers,
          submissions, uploads, session, now, published, inflight, resp>>

None == "None"

\* The outcome of a lookup that finds no row (primary keys start at 1).
NoRow == [id |-> 0]

Max(S) == CHOOSE x \in S : \A y \in S : y <= x

Min2(a, b) == IF a <= b THEN a ELSE b

\* seq[:n]
Take(seq, n) == SubSeq(seq, 1, Min2(n, Len(seq)))

\* The next primary key of a table (a fresh identifier on insert).
NextId(rows) == IF rows = {} THEN 1 ELSE Max({r.id : r \in rows}) + 1

\* The rows of a table in query order (ascending primary key).
RECURSIVE RowsInOrder(_)
RowsInOrder(rows) ==
    IF rows = {} THEN <<>>
    ELSE LET first == CHOOSE r \in rows : \A o \in rows : r.id <= o.id
         IN  <<first>> \o RowsInOrder(rows \ {first})

(***************************************************************************)
(* Form values: strings as sequences of characters                         *)
(***************************************************************************)

DigitChars == <<"0", "1", "2", "3", "4", "5", "6", "7", "8", "9">>

IsDigit(c) == \E i \in DOMAIN DigitChars : DigitChars[i] = c

DigitValue(c) == (CHOOSE i \in DOMAIN DigitChars : DigitChars[i] = c) - 1

\* str.strip(): leading and trailing blanks removed
RECURSIVE Strip(_)
Strip(str) ==
    IF str = <<>> THEN <<>>
    ELSE IF Head(str) = " " THEN Strip(Tail(str))
    ELSE IF str[Len(str)] = " " THEN Strip(SubSeq(str, 1, Len(str) - 1))
    ELSE str

RECURSIVE DigitsValue(_)
DigitsValue(digits) ==
    IF digits = <<>> THEN 0
    ELSE 10 * DigitsValue(SubSeq(digits, 1, Len(digits) - 1))
            + DigitValue(digits[Len(digits)])

\* int(str): blanks around the literal are ignored, then an optional sign and
\* at least one decimal digit; anything else raises ValueError (ok = FALSE).
\* (Underscores between digits are not modelled.)
PyInt(str) ==
    LET body == Strip(str)
        signed == body # <<>> /\ Head(body) \in {"+", "-"}
        digits == IF signed THEN Tail(body) ELSE body
        ok == digits # <<>> /\ \A i \in DOMAIN digits : IsDigit(digits[i])
    IN  [ok |-> ok,
         value |-> IF ~ok THEN 0
                   ELSE IF signed /\ Head(body) = "-" THEN 0 - DigitsValue(digits)
                   ELSE DigitsValue(digits)]

\* str(n) for n >= 0
RECURSIVE PyStr(_)
PyStr(n) ==
    IF n < 10 THEN <<DigitChars[n + 1]>>
    ELSE Append(PyStr(n \div 10), DigitChars[(n % 10) + 1])

(***************************************************************************)
(* Users and the session                                                   *)
(***************************************************************************)

\* An optional column value: <<>> is NULL/None, <<v>> the value v.
Null == <<>>
Some(v) == <<v>>

\* Table user: one account of each staff role and the student accounts.
Users ==
    { [id |-> 1, username |-> "admin", role |-> "admin"],
      [id |-> 2, username |-> "teacher", role |-> "teacher"],
      [id |-> 3, username |-> "alice", role |-> "student"],
      [id |-> 4, username |-> "bob", role |-> "student"],
      [id |-> 5, username |-> "carol", role |-> "student"] }

\* Table student (group_id 0: no group) and the courses registered to each
\* group (table group_course).  alice and bob share a group that takes
\* course 1; carol has a profile but no group.
Students ==
    { [id |-> 1, user_id |-> 3, group_id |-> 1],
      [id |-> 2, user_id |-> 4, group_id |-> 1],
      [id |-> 3, user_id |-> 5, group_id |-> 0] }

GroupCourses == (1 :> {1}) @@ (2 :> {2})

\* Table test: a timed quiz, a homework with a deadline and one without.
\* duration_minutes and due_at are optional; due_at is in clock seconds.
Tests ==
    { [id |-> 1, course_id |-> 1, is_homework |-> FALSE,
       duration_minutes |-> Some(1), due_at |-> Null],
      [id |-> 2, course_id |-> 1, is_homework |-> TRUE,
       duration_minutes |-> Null, due_at |-> Some(30)],
      [id |-> 3, course_id |-> 1, is_homework |-> TRUE,
       duration_minutes |-> Null, due_at |-> Null] }

\* Tables question and option: the quiz has two questions, each with a
\* correct and a wrong option.
Questions == { [id |-> 1, test_id |-> 1], [id |-> 2, test_id |-> 1] }

Options ==
    { [id |-> 1, question_id |-> 1, is_correct |-> TRUE],
      [id |-> 2, question_id |-> 2, is_correct |-> FALSE],
      [id |-> 3, question_id |-> 1, is_correct |-> FALSE],
      [id |-> 4, question_id |-> 2, is_correct |-> TRUE] }

\* Model.query.get(id): the row with the primary key, NoRow when none
Get(rows, id) ==
    IF \E r \in rows : r.id = id THEN CHOOSE r \in rows : r.id = id ELSE NoRow

\* Student.query.filter_by(user_id=user.id).first()
StudentOf(user) ==
    IF \E st \in Students : st.user_id = user.id
    THEN CHOOSE st \in Students : st.user_id = user.id
    ELSE NoRow

\* not student or not student.group or t.course not in student.group.courses
NoAccess(student, t) ==
    \/ student.id = 0
    \/ student.group_id = 0
    \/ t.course_id \notin GroupCourses[student.group_id]

\* t.questions, in query order
QuestionsOf(t) == RowsInOrder({q \in Questions : q.test_id = t.id})

\* current_user(): the user row named by session['user'], NoRow when none
current_user(sess) ==
    IF \E u \in Users : u.username = sess.user
    THEN CHOOSE u \in Users : u.username = sess.user
    ELSE NoRow

\* 'user' in session
LoggedIn(sess) == sess.user # None

(***************************************************************************)
(* Combination catalog and scoring engine                                  *)
(***************************************************************************)

\* The keys of the catalog dict, in declaration (= dict iteration) order.
ENT_COMBINATIONS ==
    <<"math_inf", "math_phys", "math_geo", "bio_chem", "bio_geo", "chem_phys",
      "geo_foreign", "geo_hist", "hist_law", "foreign_hist", "kaz_lit",
      "rus_lit", "creative">>

CatalogKeys == {ENT_COMBINATIONS[i] : i \in DOMAIN ENT_COMBINATIONS}

\* A weight mapping (the JSON column ai_answer.scores) is a function from a
\* finite set of keys to integers; the empty dict is the empty function.
EmptyMap == [k \in {} |-> 0]

\* Mutant of AddAnswer: "=" written for "+=".
AddAnswerOverwrite(base, ans) ==
    [k \in DOMAIN base |->
        IF k \in DOMAIN ans.scores THEN ans.scores[k] ELSE base[k]]

\* Mutant of AddAnswer: the "if comb in base_scores" test left out.
AddAnswerAnyKey(base, ans) ==
    [k \in DOMAIN base \cup DOMAIN ans.scores |->
        (IF k \in DOMAIN base THEN base[k] ELSE 0)
        + (IF k \in DOMAIN ans.scores THEN ans.scores[k] ELSE 0)]

\* for comb, weight in ans.scores.items(): if comb in base_scores: base_scores[comb] += weight
AddAnswer(base, ans) ==
    [k \in DOMAIN base |->
        base[k] + (IF k \in DOMAIN ans.scores THEN ans.scores[k] ELSE 0)]

RECURSIVE AddAnswers(_, _)
AddAnswers(base, rowSeq) ==
    IF rowSeq = <<>> THEN base
    ELSE AddAnswers(AddAnswer(base, Head(rowSeq)), Tail(rowSeq))

\* sorted(..., key=lambda kv: kv[1], reverse=True): a stable sort, so pairs of
\* equal score keep the order they had.  InsertDesc puts p behind every pair
\* whose score is at least p's.
\* Mutant of InsertDesc: a sort that is not stable (equal scores are reversed).
RECURSIVE InsertDescUnstable(_, _)
InsertDescUnstable(sorted, p) ==
    IF sorted = <<>> THEN <<p>>
    ELSE IF Head(sorted).score > p.score
         THEN <<Head(sorted)>> \o InsertDescUnstable(Tail(sorted), p)
         ELSE <<p>> \o sorted

RECURSIVE InsertDesc(_, _)
InsertDesc(sorted, p) ==
    IF sorted = <<>> THEN <<p>>
    ELSE IF Head(sorted).score >= p.score
         THEN <<Head(sorted)>> \o InsertDesc(Tail(sorted), p)
         ELSE <<p>> \o sorted

RECURSIVE SortedDesc(_)
SortedDesc(pairs) ==
    IF pairs = <<>> THEN <<>>
    ELSE InsertDesc(SortedDesc(SubSeq(pairs, 1, Len(pairs) - 1)), pairs[Len(pairs)])

\* base_scores.items(), in dict order
Items(scores) ==
    [i \in DOMAIN ENT_COMBINATIONS |->
        [key |-> ENT_COMBINATIONS[i], score |-> scores[ENT_COMBINATIONS[i]]]]

\* AIAnswer.query.filter(AIAnswer.id.in_(answer_ids)).all()
AnswersIn(answers, answer_ids) ==
    {a \in answers : \E i \in DOMAIN answer_ids : answer_ids[i] = a.id}

\* Mutant of calculate_ai_scores: the slice [:3] forgotten.
calculate_ai_scores_unsliced(answers, answer_ids) ==
    LET base_scores == [k \in CatalogKeys |-> 0] IN
    IF answer_ids = <<>>
    THEN [scores |-> base_scores, top3 |-> <<>>]
    ELSE LET total == AddAnswers(base_scores, RowsInOrder(AnswersIn(answers, answer_ids)))
         IN  [scores |-> total, top3 |-> SortedDesc(Items(total))]

\* Mutant of calculate_ai_scores: the early return for no identifiers dropped.
calculate_ai_scores_no_guard(answers, answer_ids) ==
    LET base_scores == [k \in CatalogKeys |-> 0]
        total == AddAnswers(base_scores, RowsInOrder(AnswersIn(answers, answer_ids)))
    IN  [scores |-> total, top3 |-> Take(SortedDesc(Items(total)), 3)]

\* calculate_ai_scores(answer_ids) over the stored answers: (base_scores, top3)
calculate_ai_scores(answers, answer_ids) ==
    LET base_scores == [k \in CatalogKeys |-> 0] IN
    IF answer_ids = <<>>
    THEN [scores |-> base_scores, top3 |-> <<>>]
    ELSE LET total == AddAnswers(base_scores, RowsInOrder(AnswersIn(answers, answer_ids)))
             sorted_pairs == SortedDesc(Items(total))
         IN  [scores |-> total, top3 |-> Take(sorted_pairs, 3)]

(***************************************************************************)
(* Question/answer seed reconciler                                         *)
(***************************************************************************)

\* The design-time seed, cut down to two of its questions with two answers
\* each (the source lists 28 questions); texts are abbreviated.
AI_QUESTION_SEED ==
    << [text |-> "class",
        answers |-> << [text |-> "grade9", scores |-> EmptyMap],
                       [text |-> "grade10", scores |-> EmptyMap] >>],
       [text |-> "interest",
        answers |-> << [text |-> "code",
                        scores |-> ("math_inf" :> 3) @@ ("math_phys" :> 1)],
                       [text |-> "formulas",
                        scores |-> ("math_phys" :> 3) @@ ("math_inf" :> 1)] >>] >>

\* {row.text: row for row in rows}.get(text): a dict built in query order
\* keeps, for each text, the last row that carries it; NoRow when none does.
LastByText(rows, text) ==
    LET same == {r \in rows : r.text = text}
    IN  IF same = {} THEN NoRow
        ELSE CHOOSE r \in same : \A o \in same : o.id <= r.id

\* desired_answers = {a["text"]: a for a in q["answers"]}: the value under text
DesiredAnswer(q, text) ==
    LET idx == {i \in DOMAIN q.answers : q.answers[i].text = text}
    IN  q.answers[Max(idx)]

\* the keys of desired_answers in dict order (order of first occurrence)
RECURSIVE DesiredTexts(_)
DesiredTexts(answerSeq) ==
    IF answerSeq = <<>> THEN <<>>
    ELSE LET init == DesiredTexts(SubSeq(answerSeq, 1, Len(answerSeq) - 1))
             t == answerSeq[Len(answerSeq)].text
         IN  IF \E i \in DOMAIN init : init[i] = t THEN init ELSE Append(init, t)

\* The second loop of ensure_ai_seed over desired_answers, from position i:
\* overwrite the weights of the answer found under the text, or add a row.
RECURSIVE SyncAnswers(_, _, _, _, _, _)
SyncAnswers(st, q, qid, loaded, texts, i) ==
    IF i > Len(texts) THEN st
    ELSE LET text == texts[i]
             ans == DesiredAnswer(q, text)
             found == LastByText(loaded, text)
             next ==
                IF found.id # 0
                THEN [st EXCEPT !.answers =
                        {IF a.id = found.id THEN [a EXCEPT !.scores = ans.scores] ELSE a
                            : a \in st.answers}]
                ELSE [st EXCEPT
                        !.answers = st.answers \cup
                            {[id |-> st.nextAnswer, question_id |-> qid,
                              text |-> text, scores |-> ans.scores]},
                        !.nextAnswer = st.nextAnswer + 1]
         IN  SyncAnswers(next, q, qid, loaded, texts, i + 1)

\* Mutant of SyncQuestion: the answers are not narrowed to the question's
\* own.
SyncQuestionAllAnswers(st, q, questions0, answers0) ==
    LET q_obj == LastByText(questions0, q.text)
        qid == IF q_obj.id = 0 THEN NextId(st.questions) ELSE q_obj.id
        loaded == IF q_obj.id = 0 THEN {}
                  ELSE answers0
        texts == DesiredTexts(q.answers)
        stale == {t \in {a.text : a \in loaded} :
                    \A i \in DOMAIN texts : texts[i] # t}
        \* for text, ans_obj in existing_answers.items(): delete ans_obj
        deletedIds == {LastByText(loaded, t).id : t \in stale}
        st1 == [st EXCEPT
                  !.questions = IF q_obj.id = 0
                                THEN st.questions \cup {[id |-> qid, text |-> q.text]}
                                ELSE st.questions,
                  !.answers = {a \in st.answers : a.id \notin deletedIds}]
    IN  SyncAnswers(st1, q, qid, loaded, texts, 1)

\* The body of the loop "for q in AI_QUESTION_SEED".  questions0 and answers0
\* are the rows loaded by the query at the top of ensure_ai_seed.
SyncQuestion(st, q, questions0, answers0) ==
    LET q_obj == LastByText(questions0, q.text)
        qid == IF q_obj.id = 0 THEN NextId(st.questions) ELSE q_obj.id
        loaded == IF q_obj.id = 0 THEN {}
                  ELSE {a \in answers0 : a.question_id = qid}
        texts == DesiredTexts(q.answers)
        stale == {t \in {a.text : a \in loaded} :
                    \A i \in DOMAIN texts : texts[i] # t}
        \* for text, ans_obj in existing_answers.items(): delete ans_obj
        deletedIds == {LastByText(loaded, t).id : t \in stale}
        st1 == [st EXCEPT
                  !.questions = IF q_obj.id = 0
                                THEN st.questions \cup {[id |-> qid, text |-> q.text]}
                                ELSE st.questions,
                  !.answers = {a \in st.answers : a.id \notin deletedIds}]
    IN  SyncAnswers(st1, q, qid, loaded, texts, 1)

RECURSIVE SyncSeed(_, _, _, _)
SyncSeed(st, i, questions0, answers0) ==
    IF i > Len(AI_QUESTION_SEED) THEN st
    ELSE SyncSeed(SyncQuestion(st, AI_QUESTION_SEED[i], questions0, answers0),
                  i + 1, questions0, answers0)

\* ensure_ai_seed() on the stored questions and answers: the stored rows after
\* its commit.
ensure_ai_seed(questions, answers) ==
    LET st == SyncSeed([questions |-> questions, answers |-> answers,
                        nextAnswer |-> NextId(answers)],
                       1, questions, answers)
    IN  [questions |-> st.questions, answers |-> st.answers]

(***************************************************************************)
(* Login, logout and the clock                                             *)
(***************************************************************************)

\* POST / with valid credentials of u: session['user'] = u.username
Login(u) ==
    /\ session' = [session EXCEPT !.user = u.username]
    /\ resp' = [op |-> "login", user |-> u.username]
    /\ UNCHANGED <<aiQuestions, aiAnswers, aiResults, attempts, attemptAnswers,
                   submissions, uploads, now,
                   published, inflight>>

\* GET /logout: session.pop('user', None); every other key stays
Logout ==
    /\ session' = [session EXCEPT !.user = None]
    /\ resp' = [op |-> "logout"]
    /\ UNCHANGED <<aiQuestions, aiAnswers, aiResults, attempts, attemptAnswers,
                   submissions, uploads, now,
                   published, inflight>>

ClockStep == 30   \* seconds the clock advances in one step
MaxTime == 60     \* the clock stops here

\* Time passes between requests.
Tick ==
    /\ now + ClockStep <= MaxTime
    /\ now' = now + ClockStep
    /\ UNCHANGED <<aiQuestions, aiAnswers, aiResults, attempts, attemptAnswers,
                   submissions, uploads, session, resp,
                   published, inflight>>

(***************************************************************************)
(* Attempt lifecycle: start_test and submit_test                           *)
(***************************************************************************)

MaxAttempts == 2      \* attempt rows
MaxAnswerRows == 2    \* attempt_answer rows

\* Attempt(test_id=..., student_id=...): started_at defaults to the clock,
\* finished_at to NULL, score to 0.
NewAttempt(id, test_id, student_id, at) ==
    [id |-> id, test_id |-> test_id, student_id |-> student_id,
     started_at |-> at, finished_at |-> Null, score |-> 0]

\* datetime values carry microseconds.
MicrosPerSecond == 1000000

\* int(x) for the quotient a / b, b > 0: the fraction is cut off towards 0.
TruncDiv(a, b) == IF a >= 0 THEN a \div b ELSE 0 - ((0 - a) \div b)

\* remaining_seconds of start_test, times in microseconds:
\* max(0, int((started_at + timedelta(minutes=duration_minutes)
\*             - utcnow()).total_seconds()))
\* under "if t.duration_minutes:", which None and 0 both fail; else None.
remaining_seconds(duration_minutes, started_at, at) ==
    IF duration_minutes # Null /\ duration_minutes[1] # 0
    THEN LET end_time == started_at + duration_minutes[1] * 60 * MicrosPerSecond
             seconds == TruncDiv(end_time - at, MicrosPerSecond)
         IN  Some(IF seconds > 0 THEN seconds ELSE 0)
    ELSE Null

\* remaining_seconds for quiz t and its attempt on the clock of whole
\* seconds.
RemainingSeconds(t, attempt, at) ==
    remaining_seconds(t.duration_minutes, attempt.started_at * MicrosPerSecond,
                      at * MicrosPerSecond)

\* Mutant of StartAsStudent: the new attempt is not bound into the session.
StartAsStudentUnbound(t, student) ==
    LET attempt_id == session.attempt[t.id]
        found == IF attempt_id # 0 THEN Get(attempts, attempt_id) ELSE NoRow
        attempt == IF found.id # 0 THEN found
                   ELSE NewAttempt(NextId(attempts), t.id, student.id, now)
    IN  /\ found.id = 0 => Cardinality(attempts) < MaxAttempts
        /\ attempts' = IF found.id # 0 THEN attempts ELSE attempts \cup {attempt}
        /\ session' = session
        /\ resp' = [op |-> "start_test", status |-> "ok", test |-> t.id,
                    attempt |-> attempt.id, reused |-> found.id # 0,
                    remaining_seconds |-> RemainingSeconds(t, attempt, now)]

\* The student branch of start_test: reuse the attempt bound in the session
\* when it resolves to a stored row, else create one and bind it.
StartAsStudent(t, student) ==
    LET attempt_id == session.attempt[t.id]
        found == IF attempt_id # 0 THEN Get(attempts, attempt_id) ELSE NoRow
        attempt == IF found.id # 0 THEN found
                   ELSE NewAttempt(NextId(attempts), t.id, student.id, now)
    IN  /\ found.id = 0 => Cardinality(attempts) < MaxAttempts
        /\ attempts' = IF found.id # 0 THEN attempts ELSE attempts \cup {attempt}
        /\ session' = IF found.id # 0 THEN session
                      ELSE [session EXCEPT !.attempt[t.id] = attempt.id]
        /\ resp' = [op |-> "start_test", status |-> "ok", test |-> t.id,
                    attempt |-> attempt.id, reused |-> found.id # 0,
                    remaining_seconds |-> RemainingSeconds(t, attempt, now)]

\* start_test served statement by statement.  Slots are the requests the
\* server works on at the same time; each carries the session cookie the
\* browser sent with it.
Slots == {1, 2}

Idle == [pc |-> "idle"]

\* start_test up to and including the lookup of the bound attempt
\* ("attempt_id = session.get(key)", "Attempt.query.get(attempt_id)").  A
\* request that does not reach the lookup is answered at once.
BeginStart(slot, test_id) ==
    LET t == Get(Tests, test_id)
        user == current_user(session)
        student == StudentOf(user)
        attempt_id == session.attempt[t.id]
        found == IF attempt_id # 0 THEN Get(attempts, attempt_id) ELSE NoRow
        Answer(status) ==
            /\ resp' = [op |-> "start_test", status |-> status, test |-> test_id,
                        attempt |-> 0, reused |-> FALSE, remaining_seconds |-> Null]
            /\ UNCHANGED inflight
    IN  /\ inflight[slot] = Idle
        /\ IF ~LoggedIn(session) THEN Answer("login")
           ELSE IF t.id = 0 THEN Answer("not_found")
           ELSE IF t.is_homework THEN Answer("homework")
           ELSE IF user.id # 0 /\ user.role = "student"
                THEN IF NoAccess(student, t) THEN Answer("denied")
                     ELSE /\ inflight' = [inflight EXCEPT ![slot] =
                                [pc |-> "create", test |-> t.id,
                                 student |-> student.id, found |-> found.id]]
                          /\ UNCHANGED resp
                ELSE Answer("preview")
        /\ UNCHANGED <<aiQuestions, aiAnswers, aiResults, attempts, attemptAnswers,
                       submissions, uploads, session, now, published>>

\* Mutant of FinishStart: the bound attempt is looked up again at the time
\* of the insert.
FinishStartLooksAgain(slot) ==
    LET req == inflight[slot]
        t == Get(Tests, req.test)
        attempt_id == session.attempt[t.id]
        found == IF attempt_id # 0 THEN Get(attempts, attempt_id) ELSE NoRow
        attempt == IF found.id # 0 THEN found
                   ELSE NewAttempt(NextId(attempts), t.id, req.student, now)
    IN  /\ req.pc = "create"
        /\ found.id = 0 => Cardinality(attempts) < MaxAttempts
        /\ attempts' = IF found.id # 0 THEN attempts ELSE attempts \cup {attempt}
        /\ session' = IF found.id # 0 THEN session
                      ELSE [session EXCEPT !.attempt[t.id] = attempt.id]
        /\ resp' = [op |-> "start_test", status |-> "ok", test |-> t.id,
                    attempt |-> attempt.id, reused |-> found.id # 0,
                    remaining_seconds |-> RemainingSeconds(t, attempt, now)]
        /\ inflight' = [inflight EXCEPT ![slot] = Idle]
        /\ UNCHANGED <<aiQuestions, aiAnswers, aiResults, attemptAnswers,
                       submissions, uploads, now, published>>

\* start_test from "if not attempt:" on, with the attempt the request found
\* at its lookup: insert and bind one when it found none, then render.
FinishStart(slot) ==
    LET req == inflight[slot]
        t == Get(Tests, req.test)
        found == IF req.found # 0 THEN Get(attempts, req.found) ELSE NoRow
        attempt == IF found.id # 0 THEN found
                   ELSE NewAttempt(NextId(attempts), t.id, req.student, now)
    IN  /\ req.pc = "create"
        /\ found.id = 0 => Cardinality(attempts) < MaxAttempts
        /\ attempts' = IF found.id # 0 THEN attempts ELSE attempts \cup {attempt}
        /\ session' = IF found.id # 0 THEN session
                      ELSE [session EXCEPT !.attempt[t.id] = attempt.id]
        /\ resp' = [op |-> "start_test", status |-> "ok", test |-> t.id,
                    attempt |-> attempt.id, reused |-> found.id # 0,
                    remaining_seconds |-> RemainingSeconds(t, attempt, now)]
        /\ inflight' = [inflight EXCEPT ![slot] = Idle]
        /\ UNCHANGED <<aiQuestions, aiAnswers, aiResults, attemptAnswers,
                       submissions, uploads, now, published>>

\* Mutant of StartTest: the redirect of a homework quiz left out.
StartTestNoHomeworkTest(test_id) ==
    LET t == Get(Tests, test_id)
        user == current_user(session)
        student == StudentOf(user)
        Answer(status) ==
            /\ resp' = [op |-> "start_test", status |-> status, test |-> test_id,
                        attempt |-> 0, reused |-> FALSE, remaining_seconds |-> Null]
            /\ UNCHANGED <<attempts, session>>
    IN  /\ IF ~LoggedIn(session) THEN Answer("login")
           ELSE IF t.id = 0 THEN Answer("not_found")
           ELSE IF user.id # 0 /\ user.role = "student"
                THEN IF NoAccess(student, t) THEN Answer("denied")
                     ELSE StartAsStudent(t, student)
                ELSE Answer("preview")
        /\ UNCHANGED <<aiQuestions, aiAnswers, aiResults, attemptAnswers,
                       submissions, uploads, now,
                       published, inflight>>

\* GET /tests/<test_id>/start
StartTest(test_id) ==
    LET t == Get(Tests, test_id)
        user == current_user(session)
        student == StudentOf(user)
        Answer(status) ==
            /\ resp' = [op |-> "start_test", status |-> status, test |-> test_id,
                        attempt |-> 0, reused |-> FALSE, remaining_seconds |-> Null]
            /\ UNCHANGED <<attempts, session>>
    IN  /\ IF ~LoggedIn(session) THEN Answer("login")
           ELSE IF t.id = 0 THEN Answer("not_found")
           ELSE IF t.is_homework THEN Answer("homework")
           ELSE IF user.id # 0 /\ user.role = "student"
                THEN IF NoAccess(student, t) THEN Answer("denied")
                     ELSE StartAsStudent(t, student)
                ELSE Answer("preview")
        /\ UNCHANGED <<aiQuestions, aiAnswers, aiResults, attemptAnswers,
                       submissions, uploads, now,
                       published, inflight>>

\* Mutant of ScoreQuestions: every answered question counts, correct or not.
RECURSIVE ScoreQuestionsAnswered(_, _, _, _, _)
ScoreQuestionsAnswered(questions, i, form, attempt, acc) ==
    IF i > Len(questions) \/ acc.failed THEN acc
    ELSE LET q == questions[i]
             sel == form[q.id]
             parsed == PyInt(sel)
             opt == IF parsed.ok THEN Get(Options, parsed.value) ELSE NoRow
             next ==
                IF sel = <<>> THEN acc
                ELSE IF opt.id = 0
                     THEN [acc EXCEPT !.failed = TRUE,
                                      !.error = IF parsed.ok THEN "AttributeError"
                                                ELSE "ValueError"]
                ELSE [acc EXCEPT
                        !.rows = IF attempt.id # 0
                                 THEN Append(acc.rows,
                                        [attempt_id |-> attempt.id,
                                         question_id |-> q.id, option_id |-> opt.id])
                                 ELSE acc.rows,
                        !.score = acc.score + 1]
         IN  ScoreQuestionsAnswered(questions, i + 1, form, attempt, next)

\* Mutant of ScoreQuestions: a value that names no option is passed over
\* like an unanswered question.
RECURSIVE ScoreQuestionsSkipMissing(_, _, _, _, _)
ScoreQuestionsSkipMissing(questions, i, form, attempt, acc) ==
    IF i > Len(questions) \/ acc.failed THEN acc
    ELSE LET q == questions[i]
             sel == form[q.id]
             parsed == PyInt(sel)
             opt == IF parsed.ok THEN Get(Options, parsed.value) ELSE NoRow
             next ==
                IF sel = <<>> THEN acc
                ELSE IF opt.id = 0 THEN acc
                ELSE [acc EXCEPT
                        !.rows = IF attempt.id # 0
                                 THEN Append(acc.rows,
                                        [attempt_id |-> attempt.id,
                                         question_id |-> q.id, option_id |-> opt.id])
                                 ELSE acc.rows,
                        !.score = IF opt.is_correct THEN acc.score + 1 ELSE acc.score]
         IN  ScoreQuestionsSkipMissing(questions, i + 1, form, attempt, next)

\* The loop of submit_test over the quiz's questions from position i.  acc
\* holds the score so far, the AttemptAnswer rows added and whether a lookup
\* failed: int(sel) raises ValueError on a malformed value, and a value that
\* names no option leaves opt = None, whose attribute access raises.
RECURSIVE ScoreQuestions(_, _, _, _, _)
ScoreQuestions(questions, i, form, attempt, acc) ==
    IF i > Len(questions) \/ acc.failed THEN acc
    ELSE LET q == questions[i]
             sel == form[q.id]
             parsed == PyInt(sel)
             opt == IF parsed.ok THEN Get(Options, parsed.value) ELSE NoRow
             next ==
                IF sel = <<>> THEN acc
                ELSE IF opt.id = 0
                     THEN [acc EXCEPT !.failed = TRUE,
                                      !.error = IF parsed.ok THEN "AttributeError"
                                                ELSE "ValueError"]
                ELSE [acc EXCEPT
                        !.rows = IF attempt.id # 0
                                 THEN Append(acc.rows,
                                        [attempt_id |-> attempt.id,
                                         question_id |-> q.id, option_id |-> opt.id])
                                 ELSE acc.rows,
                        !.score = IF opt.is_correct THEN acc.score + 1 ELSE acc.score]
         IN  ScoreQuestions(questions, i + 1, form, attempt, next)

\* db.session.add(AttemptAnswer(...)) for each row, in order
RECURSIVE InsertAnswers(_, _)
InsertAnswers(table, rows) ==
    IF rows = <<>> THEN table
    ELSE InsertAnswers(
            table \cup {[id |-> NextId(table), attempt_id |-> Head(rows).attempt_id,
                         question_id |-> Head(rows).question_id,
                         option_id |-> Head(rows).option_id]},
            Tail(rows))

\* Mutant of SubmitScored: a submit for a bound attempt whose time has run
\* out is turned away.
SubmitScoredUnlessExpired(t, form, student_id) ==
    LET aid == IF student_id # 0 THEN session.attempt[t.id] ELSE 0
        found == IF aid # 0 THEN Get(attempts, aid) ELSE NoRow
        attempt == IF student_id = 0 THEN NoRow
                   ELSE IF found.id # 0 THEN found
                   ELSE NewAttempt(NextId(attempts), t.id, student_id, now)
        questions == QuestionsOf(t)
        done == ScoreQuestions(questions, 1, form, attempt,
                               [score |-> 0, rows |-> <<>>, failed |-> FALSE,
                                error |-> ""])
    IN  IF found.id # 0 /\ RemainingSeconds(t, found, now) = Some(0)
        THEN /\ resp' = [op |-> "submit_test", status |-> "expired", test |-> t.id]
             /\ UNCHANGED <<attempts, attemptAnswers>>
        ELSE IF done.failed
        THEN /\ resp' = [op |-> "submit_test", status |-> "error", test |-> t.id,
                         error |-> done.error]
             /\ UNCHANGED <<attempts, attemptAnswers>>
        ELSE /\ attempt.id # 0 /\ found.id = 0 => Cardinality(attempts) < MaxAttempts
             /\ Cardinality(attemptAnswers) + Len(done.rows) <= MaxAnswerRows
             /\ attempts' =
                    IF attempt.id = 0 THEN attempts
                    ELSE {a \in attempts : a.id # attempt.id} \cup
                         {[attempt EXCEPT !.score = done.score,
                                          !.finished_at = Some(now)]}
             /\ attemptAnswers' = InsertAnswers(attemptAnswers, done.rows)
             /\ resp' = [op |-> "submit_test", status |-> "ok", test |-> t.id,
                         form |-> form, score |-> done.score,
                         total |-> Len(questions), attempt |-> attempt.id]

\* submit_test from "total = len(t.questions)" on; student_id is 0 for an
\* actor who is not a student.  An exception ends the request with nothing
\* committed (the flushed rows are rolled back).
SubmitScored(t, form, student_id) ==
    LET aid == IF student_id # 0 THEN session.attempt[t.id] ELSE 0
        found == IF aid # 0 THEN Get(attempts, aid) ELSE NoRow
        attempt == IF student_id = 0 THEN NoRow
                   ELSE IF found.id # 0 THEN found
                   ELSE NewAttempt(NextId(attempts), t.id, student_id, now)
        questions == QuestionsOf(t)
        done == ScoreQuestions(questions, 1, form, attempt,
                               [score |-> 0, rows |-> <<>>, failed |-> FALSE,
                                error |-> ""])
    IN  IF done.failed
        THEN /\ resp' = [op |-> "submit_test", status |-> "error", test |-> t.id,
                         error |-> done.error]
             /\ UNCHANGED <<attempts, attemptAnswers>>
        ELSE /\ attempt.id # 0 /\ found.id = 0 => Cardinality(attempts) < MaxAttempts
             /\ Cardinality(attemptAnswers) + Len(done.rows) <= MaxAnswerRows
             /\ attempts' =
                    IF attempt.id = 0 THEN attempts
                    ELSE {a \in attempts : a.id # attempt.id} \cup
                         {[attempt EXCEPT !.score = done.score,
                                          !.finished_at = Some(now)]}
             /\ attemptAnswers' = InsertAnswers(attemptAnswers, done.rows)
             /\ resp' = [op |-> "submit_test", status |-> "ok", test |-> t.id,
                         form |-> form, score |-> done.score,
                         total |-> Len(questions), attempt |-> attempt.id]

\* What a client may send for one question: nothing, the identifier of a
\* correct or of a wrong option (of this or of the other question), an
\* identifier naming no option, or a value that is no number.
FormValues == {<<>>, <<"1">>, <<"2">>, <<"9">>, <<"x">>}

FormsOf(t) == [{q.id : q \in {x \in Questions : x.test_id = t.id}} -> FormValues]

\* Mutant of SubmitTest: the student profile is looked up for every role.
SubmitTestNoRoleTest(test_id, form) ==
    LET t == Get(Tests, test_id)
        user == current_user(session)
        student == StudentOf(user)
        Answer(status) ==
            /\ resp' = [op |-> "submit_test", status |-> status, test |-> test_id]
            /\ UNCHANGED <<attempts, attemptAnswers>>
    IN  /\ IF ~LoggedIn(session) THEN Answer("login")
           ELSE IF t.id = 0 THEN Answer("not_found")
           ELSE IF t.is_homework THEN Answer("homework")
           ELSE IF student.id = 0 THEN Answer("no_profile")
           ELSE SubmitScored(t, form, student.id)
        /\ UNCHANGED <<aiQuestions, aiAnswers, aiResults, submissions, uploads,
                       session, now,
                       published, inflight>>

\* POST /tests/<test_id>/submit
SubmitTest(test_id, form) ==
    LET t == Get(Tests, test_id)
        user == current_user(session)
        student == StudentOf(user)
        Answer(status) ==
            /\ resp' = [op |-> "submit_test", status |-> status, test |-> test_id]
            /\ UNCHANGED <<attempts, attemptAnswers>>
    IN  /\ IF ~LoggedIn(session) THEN Answer("login")
           ELSE IF t.id = 0 THEN Answer("not_found")
           ELSE IF t.is_homework THEN Answer("homework")
           ELSE IF user.id # 0 /\ user.role = "student"
                THEN IF student.id = 0 THEN Answer("no_profile")
                     ELSE SubmitScored(t, form, student.id)
                ELSE SubmitScored(t, form, 0)
        /\ UNCHANGED <<aiQuestions, aiAnswers, aiResults, submissions, uploads,
                       session, now,
                       published, inflight>>

(***************************************************************************)
(* Homework: homework_submit and grade_homework                            *)
(***************************************************************************)

ALLOWED_EXTENSIONS ==
    { <<"p", "d", "f">>,
      <<"d", "o", "c">>,
      <<"d", "o", "c", "x">>,
      <<"p", "p", "t">>,
      <<"p", "p", "t", "x">>,
      <<"z", "i", "p">>,
      <<"r", "a", "r">>,
      <<"7", "z">>,
      <<"m", "p", "4">>,
      <<"t", "x", "t">> }

ALLOWED_IMAGE_EXTENSIONS ==
    { <<"p", "n", "g">>,
      <<"j", "p", "g">>,
      <<"j", "p", "e", "g">>,
      <<"g", "i", "f">>,
      <<"w", "e", "b", "p">> }

UpperChars == <<"A", "B", "C", "D", "E", "F", "G", "H", "I", "J", "K", "L", "M", "N", "O", "P", "Q", "R", "S", "T", "U", "V", "W", "X", "Y", "Z">>
LowerChars == <<"a", "b", "c", "d", "e", "f", "g", "h", "i", "j", "k", "l", "m", "n", "o", "p", "q", "r", "s", "t", "u", "v", "w", "x", "y", "z">>

\* str.lower(), character by character
LowerChar(c) ==
    IF \E i \in DOMAIN UpperChars : UpperChars[i] = c
    THEN LowerChars[CHOOSE i \in DOMAIN UpperChars : UpperChars[i] = c]
    ELSE c

Lower(str) == [i \in DOMAIN str |-> LowerChar(str[i])]

\* filename.rsplit('.', 1)[1]: what follows the last dot
Extension(filename) ==
    LET last == Max({i \in DOMAIN filename : filename[i] = "."})
    IN  SubSeq(filename, last + 1, Len(filename))

HasDot(filename) == \E i \in DOMAIN filename : filename[i] = "."

allowed_file(filename) ==
    HasDot(filename) /\ Lower(Extension(filename)) \in ALLOWED_EXTENSIONS

allowed_image(filename) ==
    HasDot(filename) /\ Lower(Extension(filename)) \in ALLOWED_IMAGE_EXTENSIONS

allowed_homework_file(filename) == allowed_file(filename) \/ allowed_image(filename)

\* save_upload: the name under which the file is stored, [name, n]: the
\* given name when free (n = 0), else the first free "<base>_<n><ext>".
\* (secure_filename leaves the plain names used here as they are.)
RECURSIVE FreeSuffix(_, _, _)
FreeSuffix(stored, filename, n) ==
    IF [name |-> filename, n |-> n] \in stored
    THEN FreeSuffix(stored, filename, n + 1)
    ELSE n

save_upload(stored, filename) ==
    [name |-> filename, n |-> FreeSuffix(stored, filename, 0)]

MaxSubmissions == 2   \* homework_submission rows

\* Mutant of IsLate: ">=" written for ">".
IsLateAtDeadline(t, at) == t.due_at # Null /\ at >= t.due_at[1]

\* is_late = bool(t.due_at and now > t.due_at)
IsLate(t, at) == t.due_at # Null /\ at > t.due_at[1]

\* Mutant of PostHomework: the new submission takes the place of the
\* student's earlier ones for the assignment.
PostHomeworkReplaces(t, student, text, file) ==
    LET stripped == IF text = Null THEN <<>> ELSE Strip(text[1])
        named == file # Null /\ file[1] # <<>>
        Answer(status) ==
            /\ resp' = [op |-> "homework_submit", method |-> "POST",
                        status |-> status, test |-> t.id, text |-> text,
                        file |-> file, at |-> now]
            /\ UNCHANGED <<submissions, uploads>>
    IN  IF IsLate(t, now) THEN Answer("late")
        ELSE IF stripped = <<>> /\ ~named THEN Answer("empty")
        ELSE IF named /\ ~allowed_homework_file(file[1]) THEN Answer("bad_file")
        ELSE LET file_name == IF named THEN Some(save_upload(uploads, file[1]))
                              ELSE Null
                 new_sub == [id |-> NextId(submissions), test_id |-> t.id,
                             student_id |-> student.id,
                             text |-> IF stripped = <<>> THEN Null ELSE Some(stripped),
                             file_path |-> file_name,
                             submitted_at |-> now, score |-> Null]
             IN  /\ Cardinality(submissions) < MaxSubmissions
                 /\ submissions' =
                        {h \in submissions :
                            ~(h.test_id = t.id /\ h.student_id = student.id)}
                        \cup {new_sub}
                 /\ uploads' = IF named THEN uploads \cup {file_name[1]} ELSE uploads
                 /\ resp' = [op |-> "homework_submit", method |-> "POST",
                             status |-> "ok", test |-> t.id, text |-> text,
                             file |-> file, at |-> now]

\* The POST branch of homework_submit for a student with access.  text is
\* the form field (Null: not sent), file the uploaded file's name (Null: no
\* file part).
PostHomework(t, student, text, file) ==
    LET stripped == IF text = Null THEN <<>> ELSE Strip(text[1])
        named == file # Null /\ file[1] # <<>>
        Answer(status) ==
            /\ resp' = [op |-> "homework_submit", method |-> "POST",
                        status |-> status, test |-> t.id, text |-> text,
                        file |-> file, at |-> now]
            /\ UNCHANGED <<submissions, uploads>>
    IN  IF IsLate(t, now) THEN Answer("late")
        ELSE IF stripped = <<>> /\ ~named THEN Answer("empty")
        ELSE IF named /\ ~allowed_homework_file(file[1]) THEN Answer("bad_file")
        ELSE LET file_name == IF named THEN Some(save_upload(uploads, file[1]))
                              ELSE Null
                 new_sub == [id |-> NextId(submissions), test_id |-> t.id,
                             student_id |-> student.id,
                             text |-> IF stripped = <<>> THEN Null ELSE Some(stripped),
                             file_path |-> file_name,
                             submitted_at |-> now, score |-> Null]
             IN  /\ Cardinality(submissions) < MaxSubmissions
                 /\ submissions' = submissions \cup {new_sub}
                 /\ uploads' = IF named THEN uploads \cup {file_name[1]} ELSE uploads
                 /\ resp' = [op |-> "homework_submit", method |-> "POST",
                             status |-> "ok", test |-> t.id, text |-> text,
                             file |-> file, at |-> now]

\* The GET branch: the student's submissions of the assignment with the
\* latest submitted_at (order_by(submitted_at.desc()).first(); rows sharing
\* the latest timestamp come in no defined order), 0 when there is none.
ViewHomework(t, student) ==
    LET mine == {h \in submissions : h.test_id = t.id /\ h.student_id = student.id}
        latest == {h \in mine : \A o \in mine : o.submitted_at <= h.submitted_at}
    IN  /\ \E shown \in (IF latest = {} THEN {0} ELSE {h.id : h \in latest}) :
              resp' = [op |-> "homework_submit", method |-> "GET", status |-> "ok",
                       test |-> t.id, submission |-> shown,
                       is_late |-> IsLate(t, now)]
        /\ UNCHANGED <<submissions, uploads>>

\* GET or POST /tests/<test_id>/homework
HomeworkSubmit(test_id, method, text, file) ==
    LET t == Get(Tests, test_id)
        user == current_user(session)
        student == StudentOf(user)
        Answer(status) ==
            /\ resp' = [op |-> "homework_submit", method |-> method,
                        status |-> status, test |-> test_id]
            /\ UNCHANGED <<submissions, uploads>>
    IN  /\ IF ~LoggedIn(session) THEN Answer("login")
           ELSE IF t.id = 0 THEN Answer("not_found")
           ELSE IF ~t.is_homework THEN Answer("quiz")
           ELSE IF user.id = 0 \/ user.role # "student" THEN Answer("students_only")
           ELSE IF NoAccess(student, t) THEN Answer("denied")
           ELSE IF method = "POST" THEN PostHomework(t, student, text, file)
           ELSE ViewHomework(t, student)
        /\ UNCHANGED <<aiQuestions, aiAnswers, aiResults, attempts, attemptAnswers,
                       session, now,
                       published, inflight>>

\* Mutant of require_roles: the role of the user is not looked at.
require_roles_logged_in(sess, roles) ==
    LET user == current_user(sess)
    IN  IF ~LoggedIn(sess) THEN "login"
        ELSE IF user.id = 0 THEN "forbidden"
        ELSE "pass"

\* require_roles(*roles): "login" when nobody is logged in, "forbidden" when
\* the user is unknown or has none of the roles, "pass" otherwise.
require_roles(sess, roles) ==
    LET user == current_user(sess)
    IN  IF ~LoggedIn(sess) THEN "login"
        ELSE IF user.id = 0 \/ (roles # {} /\ user.role \notin roles) THEN "forbidden"
        ELSE "pass"

\* Mutant of GradeRows: every submission of the same student to the same
\* assignment is graded, not only the one identified.
GradeRowsOfStudent(rows, sub, input) ==
    LET score == Strip(input)
        parsed == PyInt(score)
        graded(value) ==
            {IF h.student_id = sub.student_id /\ h.test_id = sub.test_id
             THEN [h EXCEPT !.score = value] ELSE h : h \in rows}
    IN  IF score = <<>> THEN graded(Null)
        ELSE IF parsed.ok THEN graded(Some(parsed.value))
        ELSE rows

\* Mutant of GradeRows: sub.score is cleared before int(score) is tried.
GradeRowsClearFirst(rows, sub, input) ==
    LET score == Strip(input)
        parsed == PyInt(score)
        graded(value) == {IF h.id = sub.id THEN [h EXCEPT !.score = value] ELSE h
                            : h \in rows}
    IN  IF score = <<>> THEN graded(Null)
        ELSE IF parsed.ok THEN graded(Some(parsed.value))
        ELSE graded(Null)

\* The body of grade_homework on the stored submission sub: the rows after
\* it; an input that is no integer changes nothing.
GradeRows(rows, sub, input) ==
    LET score == Strip(input)
        parsed == PyInt(score)
        graded(value) == {IF h.id = sub.id THEN [h EXCEPT !.score = value] ELSE h
                            : h \in rows}
    IN  IF score = <<>> THEN graded(Null)
        ELSE IF parsed.ok THEN graded(Some(parsed.value))
        ELSE rows

\* POST /homework/submission/<submission_id>/grade with form field score
GradeHomework(submission_id, input) ==
    LET gate == require_roles(session, {"admin", "teacher"})
        sub == Get(submissions, submission_id)
        score == Strip(input)
        status == IF gate # "pass" THEN gate
                  ELSE IF sub.id = 0 THEN "not_found"
                  ELSE IF score # <<>> /\ ~PyInt(score).ok THEN "invalid"
                  ELSE "saved"
    IN  /\ submissions' = IF gate = "pass" /\ sub.id # 0
                          THEN GradeRows(submissions, sub, input)
                          ELSE submissions
        /\ resp' = [op |-> "grade_homework", status |-> status,
                    submission |-> submission_id, input |-> input,
                    previous |-> IF sub.id # 0 THEN sub.score ELSE Null]
        /\ UNCHANGED <<aiQuestions, aiAnswers, aiResults, attempts, attemptAnswers,
                       uploads, session, now,
                       published, inflight>>

\* POST /tests/<test_id>/toggle-publish, guarded by
\* require_roles('admin', 'teacher'): t.is_published = not t.is_published
TogglePublishTest(test_id) ==
    LET gate == require_roles(session, {"admin", "teacher"})
        t == Get(Tests, test_id)
        status == IF gate # "pass" THEN gate
                  ELSE IF t.id = 0 THEN "not_found"
                  ELSE "toggled"
    IN  /\ published' = IF status # "toggled" THEN published
                        ELSE IF test_id \in published THEN published \ {test_id}
                        ELSE published \cup {test_id}
        /\ resp' = [op |-> "toggle_publish_test", status |-> status,
                    test |-> test_id]
        /\ UNCHANGED <<aiQuestions, aiAnswers, aiResults, attempts, attemptAnswers,
                       submissions, uploads, session, now, inflight>>

(***************************************************************************)
(* The questionnaire request: ai_test                                      *)
(***************************************************************************)

MaxAiResults == 1   \* ai_result rows

\* Mutant of SelectAnswers: a question without a value is passed over.
RECURSIVE SelectAnswersSkipEmpty(_, _, _, _)
SelectAnswersSkipEmpty(questions, i, form, acc) ==
    IF i > Len(questions) \/ acc.unanswered THEN acc
    ELSE LET ans_id == form[questions[i].id]
             parsed == PyInt(ans_id)
             next == IF ans_id = <<>> THEN acc
                     ELSE IF parsed.ok
                          THEN [acc EXCEPT !.selected = Append(acc.selected, parsed.value)]
                          ELSE acc
         IN  SelectAnswersSkipEmpty(questions, i + 1, form, next)

\* The loop of ai_test over the stored questions from position i: the
\* answer identifiers selected so far; a question without a value ends the
\* request, a value that is no integer is skipped ("except ValueError:
\* continue").
RECURSIVE SelectAnswers(_, _, _, _)
SelectAnswers(questions, i, form, acc) ==
    IF i > Len(questions) \/ acc.unanswered THEN acc
    ELSE LET ans_id == form[questions[i].id]
             parsed == PyInt(ans_id)
             next == IF ans_id = <<>> THEN [acc EXCEPT !.unanswered = TRUE]
                     ELSE IF parsed.ok
                          THEN [acc EXCEPT !.selected = Append(acc.selected, parsed.value)]
                          ELSE acc
         IN  SelectAnswers(questions, i + 1, form, next)

\* The values a form may carry for question q of the seeded store: nothing,
\* the identifier of one of the question's answers, or no number.
AiFormValues(answers, q) ==
    {<<>>, <<"x">>} \cup {PyStr(a.id) : a \in {x \in answers : x.question_id = q.id}}

AiForms(questions, answers) ==
    {form \in [{q.id : q \in questions} ->
                UNION {AiFormValues(answers, q) : q \in questions}] :
        \A q \in questions : form[q.id] \in AiFormValues(answers, q)}

\* GET or POST /ai-test.  The seed is reconciled (and committed) before
\* anything else; form maps question identifiers to the submitted values.
AiTest(method) ==
    LET seeded == ensure_ai_seed(aiQuestions, aiAnswers)
        questions == RowsInOrder(seeded.questions)
        user == current_user(session)
    IN  /\ IF ~LoggedIn(session)
           THEN /\ resp' = [op |-> "ai_test", method |-> method, status |-> "login"]
                /\ UNCHANGED <<aiQuestions, aiAnswers, aiResults, session>>
           ELSE /\ aiQuestions' = seeded.questions
                /\ aiAnswers' = seeded.answers
                /\ IF method = "GET"
                   THEN /\ resp' = [op |-> "ai_test", method |-> method,
                                    status |-> "form"]
                        /\ UNCHANGED <<aiResults, session>>
                   ELSE \E form \in AiForms(seeded.questions, seeded.answers) :
                          LET chosen == SelectAnswers(questions, 1, form,
                                            [selected |-> <<>>, unanswered |-> FALSE])
                              r == calculate_ai_scores(seeded.answers, chosen.selected)
                              result == [id |-> NextId(aiResults),
                                         user_id |-> user.id,
                                         scores |-> r.scores,
                                         top_combinations |-> r.top3]
                          IN  IF chosen.unanswered
                              THEN /\ resp' = [op |-> "ai_test", method |-> method,
                                               status |-> "unanswered", form |-> form]
                                   /\ UNCHANGED <<aiResults, session>>
                              ELSE /\ Cardinality(aiResults) < MaxAiResults
                                   /\ aiResults' = aiResults \cup {result}
                                   /\ session' = [session EXCEPT
                                                    !.last_ai_result_id = result.id]
                                   /\ resp' = [op |-> "ai_test", method |-> method,
                                               status |-> "created", form |-> form,
                                               selected |-> chosen.selected,
                                               result |-> result.id]
        /\ UNCHANGED <<attempts, attemptAnswers, submissions, uploads, now,
                       published, inflight>>

(***************************************************************************)
(* The state before any request                                            *)
(***************************************************************************)

TestIds == {t.id : t \in Tests}

\* A fresh session: nobody logged in, no attempt bound under any key
\* attempt_test_<id> (0: key absent), no last questionnaire result.
NoSession ==
    [user |-> None, attempt |-> [t \in TestIds |-> 0], last_ai_result_id |-> 0]

Blank ==
    /\ aiQuestions = {}
    /\ aiAnswers = {}
    /\ aiResults = {}
    /\ attempts = {}
    /\ attemptAnswers = {}
    /\ submissions = {}
    /\ uploads = {}
    /\ session = NoSession
    /\ now = 0
    /\ published = TestIds
    /\ inflight = <<>>
    /\ resp = [op |-> "none"]

(***************************************************************************)
(* Specification SpecScore: the scoring engine over bounded answer stores  *)
(***************************************************************************)

MaxStoredAnswers == 2   \* answer rows in a store of SpecScore
MaxSelected == 2        \* identifiers in one call of calculate_ai_scores

\* Weight mappings a stored answer may carry: the empty one, seed-like ones,
\* one with a key outside the catalog, one with a negative weight.
WeightPool ==
    << EmptyMap,
       ("math_inf" :> 3),
       ("math_inf" :> 1) @@ ("geo_hist" :> 2),
       ("kaz_lit" :> 2) @@ ("rus_lit" :> 2),
       ("robotics" :> 5) @@ ("math_inf" :> 2),
       ("hist_law" :> -1) >>

ScoreStores ==
    {{[id |-> i, question_id |-> 1, text |-> "answer", scores |-> WeightPool[f[i]]]
        : i \in {j \in DOMAIN f : f[j] # 0}}
        : f \in [1..MaxStoredAnswers -> 0..Len(WeightPool)]}

RECURSIVE SeqsUpTo(_, _)
SeqsUpTo(S, n) ==
    IF n = 0 THEN {<<>>}
    ELSE LET shorter == SeqsUpTo(S, n - 1)
         IN  shorter \cup {Append(q, x) : q \in shorter, x \in S}

\* A store of answers and one pending call with its argument.
ScoreInit ==
    /\ aiQuestions = {[id |-> 1, text |-> "survey"]}
    /\ aiAnswers \in ScoreStores
    /\ aiResults = {}
    /\ attempts = {}
    /\ attemptAnswers = {}
    /\ submissions = {}
    /\ uploads = {}
    /\ session = NoSession
    /\ now = 0
    /\ published = TestIds
    /\ inflight = <<>>
    /\ resp \in {[op |-> "call", ids |-> answer_ids]
                    : answer_ids \in SeqsUpTo(1..(MaxStoredAnswers + 1), MaxSelected)}

\* The call calculate_ai_scores(answer_ids); identifiers may name no stored row.
Calculate ==
    /\ resp.op = "call"
    /\ LET r == calculate_ai_scores(aiAnswers, resp.ids)
       IN  resp' = [op |-> "calculate_ai_scores", ids |-> resp.ids,
                    scores |-> r.scores, top3 |-> r.top3]
    /\ UNCHANGED <<aiQuestions, aiAnswers, aiResults, attempts,
                   attemptAnswers, submissions, uploads, session, now,
                   published, inflight>>

ScoreNext == Calculate

SpecScore == ScoreInit /\ [][ScoreNext]_vars

(***************************************************************************)
(* Specification SpecSeed: the seed reconciler from any stored state       *)
(***************************************************************************)

SeedStoredQuestions == 2   \* question rows stored before the first run
SeedStoredAnswers == 2     \* answer rows stored before the first run

\* Texts and weights of the rows stored before the first run: a seed
\* question and one the seed does not know; a seed answer of each seed
\* question and an answer the seed does not know; the seed's weights for
\* "code" and weights under a key outside the catalog.
StoredQuestionTexts == {"interest", "hobby"}
StoredAnswerTexts == {"grade9", "code", "legacy"}
StoredWeights == {("math_inf" :> 3) @@ ("math_phys" :> 1), ("robotics" :> 5)}

QuestionStores ==
    {{[id |-> i, text |-> f[i]] : i \in {j \in DOMAIN f : f[j] # None}}
        : f \in [1..SeedStoredQuestions -> StoredQuestionTexts \cup {None}]}

\* Answer rows over the stored questions (the foreign key holds); 0 = no row.
AnswerStores(questions) ==
    LET qids == {q.id : q \in questions} IN
    {{[id |-> i, question_id |-> f[i].question_id, text |-> f[i].text,
       scores |-> f[i].scores] : i \in {j \in DOMAIN f : f[j].question_id # 0}}
        : f \in [1..SeedStoredAnswers ->
                    [question_id : qids, text : StoredAnswerTexts, scores : StoredWeights]
                    \cup {[question_id |-> 0]}]}

SeedInit ==
    /\ aiQuestions \in QuestionStores
    /\ aiAnswers \in AnswerStores(aiQuestions)
    /\ aiResults = {}
    /\ attempts = {}
    /\ attemptAnswers = {}
    /\ submissions = {}
    /\ uploads = {}
    /\ session = NoSession
    /\ now = 0
    /\ published = TestIds
    /\ inflight = <<>>
    /\ resp = [op |-> "none"]

\* One run of ensure_ai_seed(); resp.runs counts the runs in succession (1, 2+).
EnsureAiSeed ==
    /\ LET st == ensure_ai_seed(aiQuestions, aiAnswers)
       IN  /\ aiQuestions' = st.questions
           /\ aiAnswers' = st.answers
    /\ resp' = [op |-> "ensure_ai_seed",
                runs |-> IF resp.op = "ensure_ai_seed" THEN 2 ELSE 1]
    /\ UNCHANGED <<aiResults, attempts, attemptAnswers, submissions, uploads,
                   session, now,
                   published, inflight>>

SeedNext == EnsureAiSeed

SpecSeed == SeedInit /\ [][SeedNext]_vars

(***************************************************************************)
(* Specification SpecQuiz: one browser session taking the quiz             *)
(***************************************************************************)

\* Test identifiers the requests carry: the quiz, a homework, and one that
\* names no test.
UrlTestIds == {1, 2, 9}

\* The accounts that log in from this browser.
QuizActors == {u \in Users : u.username \in {"teacher", "alice"}}

QuizInit == Blank

QuizNext ==
    \/ \E u \in QuizActors : Login(u)
    \/ Logout
    \/ \E id \in UrlTestIds : StartTest(id)
    \/ \E id \in UrlTestIds : \E form \in FormsOf(Get(Tests, id)) : SubmitTest(id, form)

SpecQuiz == QuizInit /\ [][QuizNext]_vars

(***************************************************************************)
(* Specification SpecHomework: one browser session handing in homework     *)
(***************************************************************************)

HomeworkActors == {u \in Users : u.username \in {"teacher", "alice"}}

\* The text field: not sent, blank, or a text.
HomeworkTexts == {Null, Some(<<" ">>), Some(<<"a">>)}

\* The file part: none, one without a name, an allowed and a refused type.
HomeworkFiles ==
    {Null, Some(<<>>), Some(<<"a", ".", "P", "D", "F">>), Some(<<"a", ".", "e", "x", "e">>)}

HomeworkInit == Blank

HomeworkNext ==
    \/ \E u \in HomeworkActors : Login(u)
    \/ Logout
    \/ Tick
    \/ \E id \in TestIds \cup {9} : HomeworkSubmit(id, "GET", Null, Null)
    \/ \E id \in {t.id : t \in {x \in Tests : x.is_homework}} :
          \E text \in HomeworkTexts : \E file \in HomeworkFiles :
             HomeworkSubmit(id, "POST", text, file)
    \/ \E id \in {1, 9} : HomeworkSubmit(id, "POST", Some(<<"a">>), Null)

SpecHomework == HomeworkInit /\ [][HomeworkNext]_vars

(***************************************************************************)
(* Specification SpecGrade: grading stored submissions                     *)
(***************************************************************************)

MaxGradedRows == 2   \* submissions stored before the first grading

GradeActors == {u \in Users : u.username \in {"admin", "teacher", "alice"}}

\* What the score field may carry: nothing, blanks, integers, other text.
ScoreInputs == {<<>>, <<" ">>, <<"7">>, <<"-", "3">>, <<"x">>, <<"1", ".", "5">>}

\* Submissions handed in earlier by alice and bob to the two assignments,
\* ungraded or graded.
GradeStores ==
    UNION {{{[id |-> i, test_id |-> f[i].test_id, student_id |-> f[i].student_id,
              text |-> Some(<<"a">>), file_path |-> Null, submitted_at |-> 0,
              score |-> f[i].score] : i \in 1..n}
              : f \in [1..n -> [test_id : {2, 3}, student_id : {1, 2},
                                score : {Null, Some(7)}]]}
              : n \in 0..MaxGradedRows}

GradeInit ==
    /\ aiQuestions = {}
    /\ aiAnswers = {}
    /\ aiResults = {}
    /\ attempts = {}
    /\ attemptAnswers = {}
    /\ submissions \in GradeStores
    /\ uploads = {}
    /\ session = NoSession
    /\ now = 0
    /\ published = TestIds
    /\ inflight = <<>>
    /\ resp = [op |-> "none"]

GradeNext ==
    \/ \E u \in GradeActors : Login(u)
    \/ Logout
    \/ \E id \in 1..(MaxGradedRows + 1) : \E input \in ScoreInputs :
          GradeHomework(id, input)

SpecGrade == GradeInit /\ [][GradeNext]_vars

(***************************************************************************)
(* Specification SpecAi: one browser session taking the questionnaire      *)
(***************************************************************************)

AiActors == {u \in Users : u.username \in {"alice"}}

\* What is stored before the first request: nothing (a fresh database), or
\* a question the seed does not know whose answer carries a weight under a
\* key outside the catalog.
AiStores ==
    { [questions |-> {}, answers |-> {}],
      [questions |-> {[id |-> 1, text |-> "hobby"]},
       answers |-> {[id |-> 1, question_id |-> 1, text |-> "legacy",
                     scores |-> ("robotics" :> 5) @@ ("creative" :> 2)]}] }

AiInit ==
    /\ \E st \in AiStores : aiQuestions = st.questions /\ aiAnswers = st.answers
    /\ aiResults = {}
    /\ attempts = {}
    /\ attemptAnswers = {}
    /\ submissions = {}
    /\ uploads = {}
    /\ session = NoSession
    /\ now = 0
    /\ published = TestIds
    /\ inflight = <<>>
    /\ resp = [op |-> "none"]

AiNext ==
    \/ \E u \in AiActors : Login(u)
    \/ Logout
    \/ AiTest("GET")
    \/ AiTest("POST")

SpecAi == AiInit /\ [][AiNext]_vars

(***************************************************************************)
(* Specification SpecPaths: quiz and homework requests on every test       *)
(***************************************************************************)

PathActors == {u \in Users : u.username \in {"teacher", "alice"}}

\* The forms sent to submit_test here: each question unanswered or answered
\* with option 1.
PathForms(t) ==
    {form \in FormsOf(t) : \A q \in DOMAIN form : form[q] \in {<<>>, <<"1">>}}

PathInit == Blank

PathNext ==
    \/ \E u \in PathActors : Login(u)
    \/ Logout
    \/ \E id \in TestIds : StartTest(id)
    \/ \E id \in TestIds : \E form \in PathForms(Get(Tests, id)) : SubmitTest(id, form)
    \/ \E id \in TestIds : HomeworkSubmit(id, "POST", Some(<<"a">>), Null)

SpecPaths == PathInit /\ [][PathNext]_vars

(***************************************************************************)
(* Specification SpecRoles: the guarded requests from every kind of actor  *)
(***************************************************************************)

RoleActors == {u \in Users : u.username \in {"admin", "teacher", "alice"}}

RoleInputs == {<<>>, <<"3">>, <<"x">>}

\* One graded submission of alice is stored.
RoleInit ==
    /\ aiQuestions = {}
    /\ aiAnswers = {}
    /\ aiResults = {}
    /\ attempts = {}
    /\ attemptAnswers = {}
    /\ submissions = {[id |-> 1, test_id |-> 2, student_id |-> 1,
                       text |-> Some(<<"a">>), file_path |-> Null,
                       submitted_at |-> 0, score |-> Some(7)]}
    /\ uploads = {}
    /\ session = NoSession
    /\ now = 0
    /\ published \in {{}, TestIds}
    /\ inflight = <<>>
    /\ resp = [op |-> "none"]

RoleNext ==
    \/ \E u \in RoleActors : Login(u)
    \/ Logout
    \/ \E id \in {1, 2} : \E input \in RoleInputs : GradeHomework(id, input)
    \/ \E id \in TestIds \cup {9} : TogglePublishTest(id)

SpecRoles == RoleInit /\ [][RoleNext]_vars

(***************************************************************************)
(* Specification SpecRace: two start requests served at the same time      *)
(***************************************************************************)

RaceActors == {u \in Users : u.username \in {"alice"}}

RaceInit ==
    /\ aiQuestions = {}
    /\ aiAnswers = {}
    /\ aiResults = {}
    /\ attempts = {}
    /\ attemptAnswers = {}
    /\ submissions = {}
    /\ uploads = {}
    /\ session = NoSession
    /\ now = 0
    /\ published = TestIds
    /\ inflight = [slot \in Slots |-> Idle]
    /\ resp = [op |-> "none"]

RaceNext ==
    \/ \E u \in RaceActors : Login(u)
    \/ Logout
    \/ Tick
    \/ \E slot \in Slots : \E id \in UrlTestIds : BeginStart(slot, id)
    \/ \E slot \in Slots : FinishStart(slot)

SpecRace == RaceInit /\ [][RaceNext]_vars

(***************************************************************************)
(* Specification SpecRemaining: the remaining time of a started quiz       *)
(***************************************************************************)

\* duration_minutes as the tests view stores it: request.form.get(...,
\* type=int) takes any integer, and nothing when the field is empty.
DurationPool == {Null, Some(-1), Some(0), Some(1), Some(2)}

\* Microseconds between the attempt's started_at and the start request.
ElapsedPool ==
    {0, 1, 500000, 1000000, 1500000, 59000000, 59999999, 60000000, 60000001,
     61000000, 119500000, 120000000, 121000000}

RemainingInit ==
    /\ aiQuestions = {}
    /\ aiAnswers = {}
    /\ aiResults = {}
    /\ attempts = {}
    /\ attemptAnswers = {}
    /\ submissions = {}
    /\ uploads = {}
    /\ session = NoSession
    /\ now = 0
    /\ published = TestIds
    /\ inflight = <<>>
    /\ resp \in [op : {"start"}, duration_minutes : DurationPool,
                  elapsed : ElapsedPool]

\* The attempt started at 0 and the request arrives resp.elapsed later.
Remaining ==
    /\ resp.op = "start"
    /\ resp' = [op |-> "remaining", duration_minutes |-> resp.duration_minutes,
                elapsed |-> resp.elapsed,
                remaining_seconds |->
                    remaining_seconds(resp.duration_minutes, 0, resp.elapsed)]
    /\ UNCHANGED <<aiQuestions, aiAnswers, aiResults, attempts, attemptAnswers,
                   submissions, uploads, session, now, published, inflight>>

RemainingNext == Remaining

SpecRemaining == RemainingInit /\ [][RemainingNext]_vars

(***************************************************************************)
(* Specification SpecTimed: a student taking the timed quiz as time passes *)
(***************************************************************************)

TimedActors == {u \in Users : u.username \in {"alice"}}

\* The forms sent here: each question unanswered or answered with its
\* correct or its wrong option.
TimedForms(t) ==
    {form \in FormsOf(t) :
        \A q \in DOMAIN form :
            \/ form[q] = <<>>
            \/ \E o \in Options : o.question_id = q /\ form[q] = PyStr(o.id)}

TimedInit == Blank

TimedNext ==
    \/ \E u \in TimedActors : Login(u)
    \/ Tick
    \/ StartTest(1)
    \/ \E form \in TimedForms(Get(Tests, 1)) : SubmitTest(1, form)

SpecTimed == TimedInit /\ [][TimedNext]_vars

(***************************************************************************)
(* Specification SpecAppend: handing in again, with grading in between     *)
(***************************************************************************)

AppendActors == {u \in Users : u.username \in {"teacher", "alice"}}

AppendInit == Blank

AppendNext ==
    \/ \E u \in AppendActors : Login(u)
    \/ Tick
    \/ \E id \in {2, 3} : HomeworkSubmit(id, "GET", Null, Null)
    \/ \E id \in {2, 3} : HomeworkSubmit(id, "POST", Some(<<"a">>), Null)
    \/ HomeworkSubmit(3, "POST", Null, Some(<<"a", ".", "P", "D", "F">>))
    \/ \E id \in 1..MaxSubmissions : GradeHomework(id, <<"7">>)

SpecAppend == AppendInit /\ [][AppendNext]_vars

(***************************************************************************)
(* Properties of the scoring engine (SpecScore)                            *)
(***************************************************************************)

RECURSIVE SumOf(_, _)
SumOf(f, S) ==
    IF S = {} THEN 0
    ELSE LET k == CHOOSE x \in S : TRUE IN f[k] + SumOf(f, S \ {k})

\* The weights of one stored answer that lie under catalog keys, summed.
CatalogWeight(a) == SumOf(a.scores, DOMAIN a.scores \cap CatalogKeys)

RECURSIVE CatalogWeightOf(_)
CatalogWeightOf(rows) ==
    IF rows = {} THEN 0
    ELSE LET a == CHOOSE x \in rows : TRUE
         IN  CatalogWeight(a) + CatalogWeightOf(rows \ {a})

Selected == {a \in aiAnswers : \E i \in DOMAIN resp.ids : resp.ids[i] = a.id}

Called == resp.op = "calculate_ai_scores"

CatalogIndex(key) == CHOOSE i \in DOMAIN ENT_COMBINATIONS : ENT_COMBINATIONS[i] = key

TopKeys == {resp.top3[i].key : i \in DOMAIN resp.top3}

\* p ranks before q in the defined sort: a higher score, or the same score
\* and an earlier place in the catalog.
RanksBefore(pKey, pScore, qKey, qScore) ==
    \/ pScore > qScore
    \/ pScore = qScore /\ CatalogIndex(pKey) < CatalogIndex(qKey)

\* C3: the values of the returned scores mapping sum to the weights of the
\* stored answers matching the identifiers, restricted to catalog keys;
\* weights under keys outside the catalog contribute nothing.
C3_SumIsCatalogWeights ==
    Called =>
        /\ DOMAIN resp.scores = CatalogKeys
        /\ SumOf(resp.scores, DOMAIN resp.scores) = CatalogWeightOf(Selected)

\* Two selected answers share a catalog key and one carries a key outside
\* the catalog.
C3_Witness ==
    /\ Called
    /\ Cardinality(Selected) = 2
    /\ \E a \in Selected : "robotics" \in DOMAIN a.scores
    /\ \E a, b \in Selected : a # b /\ "math_inf" \in DOMAIN a.scores \cap DOMAIN b.scores

\* C4: for a non-empty collection of identifiers, top3 is the first three
\* (key, score) pairs in descending order of score, equal scores in catalog
\* order: its entries carry the keys' scores, are ranked among themselves,
\* and every key outside top3 ranks behind every key inside it.
C4_Top3IsSortedPrefix ==
    (Called /\ resp.ids # <<>>) =>
        /\ \A i \in DOMAIN resp.top3 :
              /\ resp.top3[i].key \in CatalogKeys
              /\ resp.top3[i].score = resp.scores[resp.top3[i].key]
        /\ \A i, j \in DOMAIN resp.top3 :
              i < j => RanksBefore(resp.top3[i].key, resp.top3[i].score,
                                   resp.top3[j].key, resp.top3[j].score)
        /\ \A k \in CatalogKeys \ TopKeys : \A i \in DOMAIN resp.top3 :
              RanksBefore(resp.top3[i].key, resp.top3[i].score, k, resp.scores[k])

\* A tie inside top3 and a tie across its boundary, with a non-zero leader.
C4_Witness ==
    /\ Called /\ resp.ids # <<>>
    /\ Len(resp.top3) = 3
    /\ resp.top3[1].score > resp.top3[2].score
    /\ resp.top3[2].score = resp.top3[3].score
    /\ \E k \in CatalogKeys \ TopKeys : resp.scores[k] = resp.top3[3].score

FirstThreeAtZero ==
    [i \in 1..3 |-> [key |-> ENT_COMBINATIONS[i], score |-> 0]]

AllZero == \A k \in CatalogKeys : resp.scores[k] = 0

\* C5 as stated: top3 always holds exactly 3 entries, also when all scores
\* are 0, when it is the first 3 catalog keys at 0.
C5_AlwaysThree ==
    Called =>
        /\ Len(resp.top3) = 3
        /\ AllZero => resp.top3 = FirstThreeAtZero

\* C5 amended: for a non-empty collection of identifiers top3 holds exactly
\* 3 entries with distinct keys, none of them scoring less than a key left
\* out, and it is the first 3 catalog keys at 0 when all scores are 0; for
\* an empty collection top3 is empty.
C5_ThreeUnlessEmpty ==
    Called =>
        IF resp.ids = <<>> THEN resp.top3 = <<>>
        ELSE /\ Len(resp.top3) = 3
             /\ Cardinality(TopKeys) = 3
             /\ \A k \in CatalogKeys \ TopKeys : \A i \in DOMAIN resp.top3 :
                   resp.scores[k] <= resp.top3[i].score
             /\ AllZero => resp.top3 = FirstThreeAtZero

\* Identifiers were given, yet every score is 0 (they match no stored answer
\* or only answers without catalog weights).
C5_Witness ==
    /\ Called /\ resp.ids # <<>>
    /\ AllZero
    /\ Len(resp.top3) = 3

\* C6: with no identifiers the result is the mapping of every catalog key
\* to 0 together with an empty top list.
C6_EmptyInput ==
    (Called /\ resp.ids = <<>>) =>
        /\ resp.scores = [k \in CatalogKeys |-> 0]
        /\ resp.top3 = <<>>

\* The empty call against a store that holds weighted answers.
C6_Witness ==
    /\ Called /\ resp.ids = <<>>
    /\ \E a \in aiAnswers : DOMAIN a.scores # {}

(***************************************************************************)
(* Properties of the attempt lifecycle (SpecQuiz)                          *)
(***************************************************************************)

Submitted == resp.op = "submit_test" /\ resp.status = "ok"

\* The option a form value names.
NamedOption(value) == Get(Options, PyInt(value).value)

\* The questions of quiz test_id for which the form carries an option
\* marked correct.
CorrectlyAnswered(test_id, form) ==
    {q \in Questions :
        /\ q.test_id = test_id
        /\ form[q.id] # <<>>
        /\ NamedOption(form[q.id]).is_correct}

\* C1: submit_test returns the number of the quiz's questions whose
\* submitted option is marked correct (an unanswered question counts 0),
\* the persisted attempt carries that score, and the score is at most the
\* number of questions.
C1_ScoreCountsCorrectOptions ==
    Submitted =>
        /\ resp.score = Cardinality(CorrectlyAnswered(resp.test, resp.form))
        /\ resp.total = Cardinality({q \in Questions : q.test_id = resp.test})
        /\ resp.score <= resp.total
        /\ resp.attempt # 0 =>
              /\ \E a \in attempts : a.id = resp.attempt
              /\ Get(attempts, resp.attempt).score = resp.score

\* A student's submit with one question right and the other wrong.
C1_Witness ==
    /\ Submitted
    /\ resp.attempt # 0
    /\ resp.score = 1
    /\ \A q \in Questions : q.test_id = resp.test => resp.form[q.id] # <<>>

\* C2: a start of a quiz that directly follows a start of the same quiz by
\* a student with access yields the same attempt and adds no attempt row.
C2_RestartReusesAttempt ==
    [][(/\ resp.op = "start_test" /\ resp.status = "ok"
        /\ resp'.op = "start_test" /\ resp'.test = resp.test)
          => (/\ resp'.status = "ok"
              /\ resp'.attempt = resp.attempt
              /\ attempts' = attempts)]_vars

\* A start that found the attempt of the session while it is the only
\* attempt stored and still unfinished.
C2_Witness ==
    /\ resp.op = "start_test" /\ resp.status = "ok" /\ resp.reused
    /\ Cardinality(attempts) = 1
    /\ \A a \in attempts : a.finished_at = Null

(***************************************************************************)
(* Properties of the seed reconciler (SpecSeed)                            *)
(***************************************************************************)

\* C8: a run of ensure_ai_seed that directly follows another run changes
\* neither the question rows nor the answer rows (their number, texts and
\* weight mappings), whatever was stored before the first run.
C8_SecondRunChangesNothing ==
    [][(resp.op = "ensure_ai_seed" /\ resp'.op = "ensure_ai_seed")
          => (aiQuestions' = aiQuestions /\ aiAnswers' = aiAnswers)]_vars

(***************************************************************************)
(* Properties of the homework submissions (SpecHomework, SpecGrade)        *)
(***************************************************************************)

\* The step is a homework POST by a logged-in student who has access to the
\* assignment the request names.
HomeworkPostStep ==
    /\ resp'.op = "homework_submit" /\ resp'.method = "POST"
    /\ now' = now
    /\ LoggedIn(session)
    /\ current_user(session).role = "student"
    /\ Get(Tests, resp'.test).id # 0
    /\ Get(Tests, resp'.test).is_homework
    /\ ~NoAccess(StudentOf(current_user(session)), Get(Tests, resp'.test))

\* now > due_at for the assignment of the request, read off the table
PostIsLate ==
    LET t == Get(Tests, resp'.test)
    IN  t.due_at # Null /\ now > t.due_at[1]

TextSupplied == resp'.text # Null /\ \E i \in DOMAIN resp'.text[1] : resp'.text[1][i] # " "

FileSupplied == resp'.file # Null /\ resp'.file[1] # <<>>

AllowedTypes == ALLOWED_EXTENSIONS \cup ALLOWED_IMAGE_EXTENSIONS

\* the supplied file's name ends in a dot and an allowed type, in any case
AllowedFileSupplied ==
    /\ FileSupplied
    /\ \E ext \in AllowedTypes :
          LET name == resp'.file[1]
              n == Len(name) - Len(ext)
          IN  /\ n >= 1
              /\ name[n] = "."
              /\ \A i \in DOMAIN ext : LowerChar(name[n + i]) = ext[i]

NoRowWritten == submissions' = submissions

\* exactly one row more, and it is the acting student's for the assignment
OneRowWritten ==
    /\ submissions \subseteq submissions'
    /\ Cardinality(submissions' \ submissions) = 1
    /\ \A h \in submissions' \ submissions :
          /\ h.test_id = resp'.test
          /\ h.student_id = StudentOf(current_user(session)).id

\* C9 as stated: no row when late; exactly one row when not late and text
\* or an allowed file is supplied; no row when neither text nor a file is
\* supplied.
C9_AsStated ==
    [][HomeworkPostStep =>
          /\ PostIsLate => NoRowWritten
          /\ (~PostIsLate /\ (TextSupplied \/ AllowedFileSupplied)) => OneRowWritten
          /\ (~TextSupplied /\ ~FileSupplied) => NoRowWritten]_vars

\* C9 amended: no row when late; when not late, exactly one row if text or
\* a file is supplied and the file, if any, is of an allowed type; no row
\* if a file of another type is supplied (with or without text) or if
\* neither text nor a file is supplied.
C9_LateOrInvalidWritesNothing ==
    [][HomeworkPostStep =>
          /\ PostIsLate => NoRowWritten
          /\ (/\ ~PostIsLate
              /\ TextSupplied \/ FileSupplied
              /\ FileSupplied => AllowedFileSupplied) => OneRowWritten
          /\ (FileSupplied /\ ~AllowedFileSupplied) => NoRowWritten
          /\ (~TextSupplied /\ ~FileSupplied) => NoRowWritten]_vars

\* A submission of a file alone, accepted at the very deadline, after an
\* earlier one.
C9_Witness ==
    /\ resp.op = "homework_submit" /\ resp.method = "POST" /\ resp.status = "ok"
    /\ Get(Tests, resp.test).due_at = Some(resp.at)
    /\ resp.text = Null
    /\ \E h \in submissions :
          h.submitted_at = resp.at /\ h.text = Null /\ h.file_path # Null
    /\ Cardinality(submissions) = 2

\* The step is grade_homework run by an admin or teacher on a stored
\* submission.
GradeStep ==
    /\ resp'.op = "grade_homework"
    /\ LoggedIn(session)
    /\ current_user(session).role \in {"admin", "teacher"}
    /\ \E h \in submissions : h.id = resp'.submission

BlankInput == \A i \in DOMAIN resp'.input : resp'.input[i] = " "

\* C10: with a valid integer the identified submission's score becomes that
\* integer, with an empty input it becomes none; no other field of it and
\* no other submission changes.
C10_GradeSetsOneScore ==
    [][(GradeStep /\ (BlankInput \/ PyInt(resp'.input).ok)) =>
          LET old == Get(submissions, resp'.submission)
              score == IF BlankInput THEN Null ELSE Some(PyInt(resp'.input).value)
          IN  submissions' = (submissions \ {old}) \cup {[old EXCEPT !.score = score]}]_vars

\* A score was cleared while another submission of the same student to the
\* same assignment keeps the score it had.
C10_Witness ==
    /\ resp.op = "grade_homework" /\ resp.status = "saved"
    /\ resp.input = <<>>
    /\ resp.previous # Null
    /\ Get(submissions, resp.submission).score = Null
    /\ \E h \in submissions :
          /\ h.id # resp.submission
          /\ h.student_id = Get(submissions, resp.submission).student_id
          /\ h.test_id = Get(submissions, resp.submission).test_id
          /\ h.score # Null

\* C11: grade_homework with an input that is neither blank nor an integer
\* is answered with the error and leaves every submission, the identified
\* one's score included, as it was.
C11_InvalidScoreChangesNothing ==
    [][(GradeStep /\ ~BlankInput /\ ~PyInt(resp'.input).ok) =>
          /\ resp'.status = "invalid"
          /\ submissions' = submissions
          /\ Get(submissions', resp'.submission).score = resp'.previous]_vars

\* An input that is no integer was rejected on a submission that carries a
\* score, and the score is still there.
C11_Witness ==
    /\ resp.op = "grade_homework" /\ resp.status = "invalid"
    /\ resp.input = <<"1", ".", "5">>
    /\ resp.previous = Some(7)
    /\ Get(submissions, resp.submission).score = Some(7)

(***************************************************************************)
(* Properties of the questionnaire request (SpecAi)                        *)
(***************************************************************************)

\* C7: the scores mapping of every stored questionnaire result has exactly
\* the catalog's keys, whatever keys the stored answers' weights carry.
C7_ResultKeysAreCatalogKeys ==
    \A r \in aiResults : DOMAIN r.scores = CatalogKeys

\* A result made from a selected answer that carries a weight under a key
\* outside the catalog; some catalog key got no contribution.
C7_Witness ==
    /\ resp.op = "ai_test" /\ resp.status = "created"
    /\ \E a \in aiAnswers :
          /\ \E i \in DOMAIN resp.selected : resp.selected[i] = a.id
          /\ DOMAIN a.scores \ CatalogKeys # {}
    /\ \E r \in aiResults :
          /\ r.id = resp.result
          /\ \E k \in CatalogKeys : r.scores[k] = 0
          /\ \E k \in CatalogKeys : r.scores[k] > 0

(***************************************************************************)
(* Further properties of the attempt lifecycle (SpecQuiz)                  *)
(***************************************************************************)

\* The step is a start or a submit of an existing quiz by a logged-in actor
\* who is not a student.
PreviewStep ==
    /\ resp'.op \in {"start_test", "submit_test"}
    /\ LoggedIn(session)
    /\ current_user(session).role # "student"
    /\ Get(Tests, resp'.test).id # 0
    /\ ~Get(Tests, resp'.test).is_homework

\* C12: a preview start or submit writes no attempt and no answer row and
\* binds nothing in the session; a preview submit that returns carries the
\* computed score and the quiz's number of questions, and no attempt.
C12_PreviewWritesNothing ==
    [][PreviewStep =>
          /\ attempts' = attempts
          /\ attemptAnswers' = attemptAnswers
          /\ session' = session
          /\ resp'.op = "start_test" =>
                resp'.status = "preview" /\ resp'.attempt = 0
          /\ resp'.op = "submit_test" =>
                /\ resp'.status \in {"ok", "error"}
                /\ resp'.status = "ok" =>
                      /\ resp'.attempt = 0
                      /\ resp'.score =
                            Cardinality(CorrectlyAnswered(resp'.test, resp'.form))
                      /\ resp'.total =
                            Cardinality({q \in Questions : q.test_id = resp'.test})]_vars

\* The teacher's submit with both questions right came back with score 2
\* of 2 while the only attempt stored is a student's, still unfinished.
C12_Witness ==
    /\ Submitted
    /\ session.user = "teacher"
    /\ resp.attempt = 0
    /\ resp.score = 2 /\ resp.total = 2
    /\ attemptAnswers = {}
    /\ Cardinality(attempts) = 1
    /\ \A a \in attempts : a.finished_at = Null

\* The step is a submit that reached the scoring of the quiz's questions.
ScoringStep ==
    /\ resp'.op = "submit_test"
    /\ resp'.status \in {"ok", "error"}

\* C13: a submit whose form names an option that does not exist never comes
\* back as scored (the request ends in the error: every scoring submit is
\* either scored or failed, and a scored one has, for every question, no
\* value or the identifier of a stored option), and a failed submit leaves
\* the attempt and answer rows, the bound attempt's score and finished_at
\* included, and the session as they were.
C13_MissingOptionIsHardError ==
    [][ScoringStep =>
          /\ resp'.status = "ok" =>
                \A q \in Questions : q.test_id = resp'.test =>
                    \/ resp'.form[q.id] = <<>>
                    \/ /\ PyInt(resp'.form[q.id]).ok
                       /\ \E o \in Options : o.id = PyInt(resp'.form[q.id]).value
          /\ resp'.status = "error" =>
                /\ attempts' = attempts
                /\ attemptAnswers' = attemptAnswers
                /\ session' = session]_vars

\* The option lookup of a student's submit returned nothing and the request
\* failed, while the attempt bound in the session is finished with score 1
\* and one answer row from an earlier submit.
C13_Witness ==
    /\ resp.op = "submit_test" /\ resp.status = "error"
    /\ resp.error = "AttributeError"
    /\ LoggedIn(session) /\ current_user(session).role = "student"
    /\ session.attempt[resp.test] # 0
    /\ \E a \in attempts :
          /\ a.id = session.attempt[resp.test]
          /\ a.finished_at # Null
          /\ a.score = 1
          /\ Cardinality({r \in attemptAnswers : r.attempt_id = a.id}) = 1

(***************************************************************************)
(* Properties of the two paths of a test (SpecPaths)                       *)
(***************************************************************************)

\* C14: no attempt and no answer row belongs to a test flagged as homework,
\* and every homework submission belongs to a test flagged as homework.
C14_PathsAreDisjoint ==
    /\ \A a \in attempts : ~Get(Tests, a.test_id).is_homework
    /\ \A r \in attemptAnswers :
          /\ ~Get(Tests, Get(attempts, r.attempt_id).test_id).is_homework
          /\ ~Get(Tests, Get(Questions, r.question_id).test_id).is_homework
    /\ \A h \in submissions : Get(Tests, h.test_id).is_homework

\* A student with attempt data on the quiz and a submission to a homework
\* was sent on from the start of a homework quiz.
C14_Witness ==
    /\ resp.op = "start_test" /\ resp.status = "homework"
    /\ LoggedIn(session) /\ current_user(session).role = "student"
    /\ attempts # {} /\ attemptAnswers # {}
    /\ \E h \in submissions : h.test_id = resp.test

(***************************************************************************)
(* Repeated requests on one attempt (SpecQuiz)                             *)
(***************************************************************************)

\* The answer rows of attempt a for question q.
AnswerRows(a, q) ==
    {r \in attemptAnswers : r.attempt_id = a.id /\ r.question_id = q.id}

\* C15: every attempt has at most one answer row per question of its quiz,
\* so its answer rows number at most the quiz's questions.
C15_OneRowPerQuestion ==
    \A a \in attempts :
        /\ \A q \in Questions : Cardinality(AnswerRows(a, q)) <= 1
        /\ Cardinality({r \in attemptAnswers : r.attempt_id = a.id})
              <= Cardinality({q \in Questions : q.test_id = a.test_id})

(***************************************************************************)
(* Properties of the role guard (SpecRoles)                                *)
(***************************************************************************)

\* The step is a guarded request from an actor who is not logged in or
\* whose role is neither admin nor teacher.
UnadmittedStep ==
    /\ resp'.op \in {"grade_homework", "toggle_publish_test"}
    /\ \/ ~LoggedIn(session)
       \/ current_user(session).role \notin {"admin", "teacher"}

\* C16: a guarded request from an actor the guard does not admit is turned
\* away and changes no stored state, no homework score in particular.
C16_GuardKeepsOthersOut ==
    [][UnadmittedStep =>
          /\ resp'.status \in {"login", "forbidden"}
          /\ submissions' = submissions
          /\ published' = published
          /\ UNCHANGED <<aiQuestions, aiAnswers, aiResults, attempts,
                         attemptAnswers, uploads, session>>]_vars

\* A student tried to clear the score of her own submission, was turned
\* away, and the score is still there.
C16_Witness ==
    /\ resp.op = "grade_homework" /\ resp.status = "forbidden"
    /\ resp.input = <<>>
    /\ LoggedIn(session) /\ current_user(session).role = "student"
    /\ \E h \in submissions :
          /\ h.id = resp.submission
          /\ h.student_id = StudentOf(current_user(session)).id
          /\ h.score = Some(7)

\* C17: an attempt that is finished is left alone by every later start and
\* submit: its row (score and finished_at) and its answer rows stay, and no
\* start hands it out again as the attempt in progress.
C17_FinishedStaysFinished ==
    [][\A a \in attempts :
          (a.finished_at # Null /\ resp'.op \in {"start_test", "submit_test"}) =>
              /\ a \in attempts'
              /\ {r \in attemptAnswers' : r.attempt_id = a.id}
                    = {r \in attemptAnswers : r.attempt_id = a.id}
              /\ (resp'.op = "start_test" /\ resp'.status = "ok") =>
                    resp'.attempt # a.id]_vars

\* C18: the attempts of a student on a quiz are at most one, and an attempt
\* of the student of the session is the one bound under the session key of
\* its quiz.
C18_OneBoundAttempt ==
    /\ \A a, b \in attempts :
          (a.student_id = b.student_id /\ a.test_id = b.test_id) => a = b
    /\ \A a \in attempts :
          (LoggedIn(session) /\ StudentOf(current_user(session)).id = a.student_id)
              => session.attempt[a.test_id] = a.id

(***************************************************************************)
(* Properties of concurrent starts (SpecRace)                              *)
(***************************************************************************)

\* Request slot completes, having found no bound attempt at its lookup.
CreatesUnseen(slot) ==
    /\ inflight[slot].pc = "create"
    /\ inflight[slot].found = 0
    /\ inflight'[slot] = Idle

\* C19: the lookup and the insert of start_test are not one step: a request
\* that found no bound attempt at its lookup inserts an Attempt when it goes
\* on, whatever another request for the same student and quiz has inserted
\* and bound since.
C19_StartIsNotAtomic ==
    [][\A slot \in Slots :
          CreatesUnseen(slot) =>
              /\ Cardinality(attempts') = Cardinality(attempts) + 1
              /\ resp'.attempt \notin {a.id : a \in attempts}
              /\ ~resp'.reused]_vars

\* Two starts of the same student for the same quiz were both served and
\* two Attempt rows exist for the pair, created at the same time.
C19_Witness ==
    /\ \A slot \in Slots : inflight[slot] = Idle
    /\ resp.op = "start_test" /\ resp.status = "ok" /\ ~resp.reused
    /\ \E a, b \in attempts :
          /\ a.id # b.id
          /\ a.student_id = b.student_id /\ a.test_id = b.test_id
          /\ a.started_at = b.started_at

(***************************************************************************)
(* Properties of the remaining time (SpecRemaining)                        *)
(***************************************************************************)

\* max(0, n)
AtLeastZero(n) == IF n > 0 THEN n ELSE 0

\* C20: remaining_seconds is none exactly when the duration is none; for a
\* declared duration d (0 included) it is max(0, d*60 - whole seconds
\* elapsed), at least 0 and at most d*60.
C20_RemainingIsClampedDifference ==
    resp.op = "remaining" =>
        LET d == resp.duration_minutes
            whole == resp.elapsed \div MicrosPerSecond
            r == resp.remaining_seconds
        IN  /\ r = Null <=> d = Null
            /\ d # Null =>
                  /\ r = Some(AtLeastZero(d[1] * 60 - whole))
                  /\ r[1] >= 0
                  /\ r[1] <= d[1] * 60

(***************************************************************************)
(* Properties of the timed quiz (SpecTimed)                                *)
(***************************************************************************)

\* The attempt bound in the session for the quiz of the request.
BoundAttempt == Get(attempts, session.attempt[resp'.test])

\* The step is a student's submit for a bound attempt of a timed quiz whose
\* remaining time is 0.
SubmitAfterTimeStep ==
    /\ resp'.op = "submit_test"
    /\ now' = now
    /\ LoggedIn(session) /\ current_user(session).role = "student"
    /\ session.attempt[resp'.test] # 0
    /\ BoundAttempt.id # 0
    /\ RemainingSeconds(Get(Tests, resp'.test), BoundAttempt, now) = Some(0)

\* C21: a submit that arrives when the remaining time of the attempt is 0 is
\* scored, one answer row is recorded for each answered question and the
\* attempt is finalized with that score at the time of the submit.
C21_LateSubmitIsAccepted ==
    [][SubmitAfterTimeStep =>
          /\ resp'.status = "ok"
          /\ resp'.attempt = BoundAttempt.id
          /\ resp'.score = Cardinality(CorrectlyAnswered(resp'.test, resp'.form))
          /\ attempts' = (attempts \ {BoundAttempt}) \cup
                {[BoundAttempt EXCEPT !.score = resp'.score,
                                      !.finished_at = Some(now)]}
          /\ attemptAnswers \subseteq attemptAnswers'
          /\ \A q \in Questions : q.test_id = resp'.test =>
                Cardinality({r \in attemptAnswers' \ attemptAnswers :
                                r.attempt_id = BoundAttempt.id /\ r.question_id = q.id})
                   = IF resp'.form[q.id] = <<>> THEN 0 ELSE 1]_vars

\* An attempt started at 0 on the one-minute quiz was finalized at 60 with
\* both questions answered, one of them right.
C21_Witness ==
    /\ Submitted
    /\ \E a \in attempts :
          /\ a.id = resp.attempt
          /\ a.started_at = 0
          /\ a.finished_at = Some(60)
          /\ a.score = 1
          /\ Cardinality({r \in attemptAnswers : r.attempt_id = a.id}) = 2

(***************************************************************************)
(* Further properties of the seed reconciler (SpecSeed)                    *)
(***************************************************************************)

SeedTexts == {AI_QUESTION_SEED[i].text : i \in DOMAIN AI_QUESTION_SEED}

\* The answer rows stored under question q.
AnswersUnder(answers, q) == {a \in answers : a.question_id = q.id}

\* Question q with its answers is as seed entry d describes it.
MatchesSeed(q, d) ==
    /\ q.text = d.text
    /\ {a.text : a \in AnswersUnder(aiAnswers, q)}
          = {d.answers[i].text : i \in DOMAIN d.answers}
    /\ \A a \in AnswersUnder(aiAnswers, q) :
          \E i \in DOMAIN d.answers :
              d.answers[i].text = a.text /\ d.answers[i].scores = a.scores

\* C22: after a run of ensure_ai_seed every seed question is stored with
\* exactly the seed's answer texts under it, each answer carrying the
\* seed's weights.
C22_SeedIsStored ==
    resp.op = "ensure_ai_seed" =>
        \A i \in DOMAIN AI_QUESTION_SEED :
            \E q \in aiQuestions : MatchesSeed(q, AI_QUESTION_SEED[i])

\* C23: a run of ensure_ai_seed keeps every stored question row, seed
\* questions with their identifiers included, and keeps every answer row
\* under a question whose text is no seed text, and adds none under it.
C23_UnrelatedRowsStay ==
    [][resp'.op = "ensure_ai_seed" =>
          /\ aiQuestions \subseteq aiQuestions'
          /\ \A q \in aiQuestions :
                q.text \notin SeedTexts =>
                    AnswersUnder(aiAnswers', q) = AnswersUnder(aiAnswers, q)]_vars

\* After the first run the question the seed does not know is stored as
\* before, with an answer that carries a seed answer's text and weights
\* under a key outside the catalog, next to the seed question stored before
\* and the one the run created.
C23_Witness ==
    /\ resp.op = "ensure_ai_seed" /\ resp.runs = 1
    /\ [id |-> 1, text |-> "hobby"] \in aiQuestions
    /\ [id |-> 2, text |-> "interest"] \in aiQuestions
    /\ [id |-> 3, text |-> "class"] \in aiQuestions
    /\ [id |-> 1, question_id |-> 1, text |-> "code",
        scores |-> ("robotics" :> 5)] \in aiAnswers

(***************************************************************************)
(* Properties of repeated homework submissions (SpecAppend)                *)
(***************************************************************************)

\* The acting student's submissions to assignment test_id.
OwnSubmissions(test_id) ==
    {h \in submissions :
        /\ h.test_id = test_id
        /\ h.student_id = StudentOf(current_user(session)).id}

\* C24: a successful homework submit keeps every earlier submission as it
\* is and adds one row, ungraded; the submission shown on GET is one of the
\* student's for the assignment with the latest submitted_at, if any.
C24_SubmissionsAreAppended ==
    [][(resp'.op = "homework_submit" /\ resp'.status = "ok" /\ now' = now) =>
          /\ resp'.method = "POST" =>
                /\ submissions \subseteq submissions'
                /\ Cardinality(submissions' \ submissions) = 1
                /\ \A h \in submissions' \ submissions :
                      /\ h.score = Null
                      /\ h.submitted_at = now
                      /\ h.id \notin {o.id : o \in submissions}
          /\ resp'.method = "GET" =>
                /\ submissions' = submissions
                /\ IF OwnSubmissions(resp'.test) = {}
                   THEN resp'.submission = 0
                   ELSE \E h \in OwnSubmissions(resp'.test) :
                          /\ h.id = resp'.submission
                          /\ \A o \in OwnSubmissions(resp'.test) :
                                o.submitted_at <= h.submitted_at]_vars

\* The student handed in a second time, later, while her first submission
\* keeps the score it was given.
C24_Witness ==
    /\ resp.op = "homework_submit" /\ resp.method = "POST" /\ resp.status = "ok"
    /\ \E old, new \in submissions :
          /\ old.test_id = new.test_id /\ old.student_id = new.student_id
          /\ old.submitted_at < new.submitted_at
          /\ new.submitted_at = resp.at
          /\ old.score = Some(7)
          /\ new.score = Null

(***************************************************************************)
(* Properties of the questionnaire's form (SpecAi)                         *)
(***************************************************************************)

\* The step is a questionnaire POST of a logged-in user that read the form.
AiPostStep ==
    /\ resp'.op = "ai_test" /\ resp'.method = "POST"
    /\ resp'.status \in {"unanswered", "created"}

\* The form of the request has no value for some stored question.
LeavesUnanswered == \E q \in aiQuestions' : resp'.form[q.id] = <<>>

\* C25: a questionnaire POST that leaves a stored question unanswered is
\* rejected, creates no result row and leaves the session as it was; one
\* that has a value for every question creates exactly one result row, the
\* user's, and binds it in the session.
C25_UnansweredIsRejected ==
    [][AiPostStep =>
          /\ LeavesUnanswered =>
                /\ resp'.status = "unanswered"
                /\ aiResults' = aiResults
                /\ session' = session
          /\ ~LeavesUnanswered =>
                /\ resp'.status = "created"
                /\ aiResults \subseteq aiResults'
                /\ Cardinality(aiResults' \ aiResults) = 1
                /\ \A r \in aiResults' \ aiResults :
                      /\ r.id = resp'.result
                      /\ r.user_id = current_user(session).id
                      /\ session'.last_ai_result_id = r.id]_vars

\* A form with an answer for the first two questions and none for the
\* third was rejected while the session still names the result of an
\* earlier, complete submission.
C25_Witness ==
    /\ resp.op = "ai_test" /\ resp.status = "unanswered"
    /\ Cardinality(aiQuestions) = 3
    /\ resp.form[1] # <<>> /\ resp.form[2] # <<>> /\ resp.form[3] = <<>>
    /\ session.last_ai_result_id # 0
    /\ Cardinality(aiResults) = 1

\* The form of the last request carries, for some stored question, a value
\* that is no integer.
HasMalformed == \E q \in aiQuestions : ~PyInt(resp.form[q.id]).ok /\ resp.form[q.id] # <<>>

\* C26: no result row is created for a questionnaire POST whose form
\* carries a malformed answer identifier.
C26_MalformedIsRejected ==
    (resp.op = "ai_test" /\ resp.method = "POST" /\ resp.status = "created")
        => ~HasMalformed


(***************************************************************************)
(* Specification SpecSession: one browser session used by several people   *)
(* in turn, with the teacher publishing and unpublishing the quiz          *)
(***************************************************************************)

\* alice and bob are in the group registered to the quiz's course, carol
\* has no group; the teacher owns the publish switch.
SessionActors == {u \in Users : u.username \in {"teacher", "alice", "bob", "carol"}}

\* The forms sent here: nothing answered, or both questions answered with
\* their correct options.
SessionForms == {(1 :> <<>>) @@ (2 :> <<>>), (1 :> <<"1">>) @@ (2 :> <<"4">>)}

\* Test.is_published defaults to False: every test starts unpublished.
SessionInit ==
    /\ aiQuestions = {}
    /\ aiAnswers = {}
    /\ aiResults = {}
    /\ attempts = {}
    /\ attemptAnswers = {}
    /\ submissions = {}
    /\ uploads = {}
    /\ session = NoSession
    /\ now = 0
    /\ published = {}
    /\ inflight = <<>>
    /\ resp = [op |-> "none"]

SessionNext ==
    \/ \E u \in SessionActors : Login(u)
    \/ Logout
    \/ TogglePublishTest(1)
    \/ StartTest(1)
    \/ \E form \in SessionForms : SubmitTest(1, form)

SpecSession == SessionInit /\ [][SessionNext]_vars

(***************************************************************************)
(* C27: attempts touched on behalf of a student are that student's         *)
(***************************************************************************)

\* A start or submit step served for a student that reused, created or
\* finalized an attempt.
AttemptStep ==
    /\ resp'.op \in {"start_test", "submit_test"}
    /\ resp'.status = "ok"
    /\ resp'.attempt # 0

ActingStudent == StudentOf(current_user(session))

\* C27: every attempt that start_test reuses or creates, and every attempt
\* that submit_test adds answer rows to or finalizes, has the acting
\* student's id as its student_id, also after a logout followed by the
\* login of another student on the same session.
C27_AttemptBelongsToActor ==
    [][AttemptStep =>
          Get(attempts', resp'.attempt).student_id = ActingStudent.id]_vars

(***************************************************************************)
(* C28: attempts exist only for quizzes registered to the student's group  *)
(***************************************************************************)

StudentById(id) ==
    IF \E s \in Students : s.id = id
    THEN CHOOSE s \in Students : s.id = id
    ELSE NoRow

\* C28: every stored attempt, and every stored answer row's attempt, is of
\* a student whose group is registered to the course of the attempt's quiz.
C28_AttemptsOnlyWithAccess ==
    /\ \A a \in attempts :
          ~NoAccess(StudentById(a.student_id), Get(Tests, a.test_id))
    /\ \A r \in attemptAnswers :
          LET a == Get(attempts, r.attempt_id)
          IN  ~NoAccess(StudentById(a.student_id), Get(Tests, a.test_id))

(***************************************************************************)
(* C29: attempts are obtained only while the quiz is published             *)
(***************************************************************************)

\* A start or submit step served for a student on a quiz whose
\* is_published flag is false.
UnpublishedStep ==
    /\ resp'.op \in {"start_test", "submit_test"}
    /\ resp'.test \notin published
    /\ current_user(session).id # 0
    /\ current_user(session).role = "student"

\* C29: start and submit of an unpublished quiz create no attempt and
\* finalize none for a student.
C29_NoAttemptWhileUnpublished ==
    [][UnpublishedStep => attempts' = attempts]_vars


(***************************************************************************)
(* Specification SpecSeedRace: two questionnaire requests served at the    *)
(* same time on a store without seed questions                             *)
(***************************************************************************)

\* GET /ai-test up to and including the query at the top of ensure_ai_seed
\* ("existing = {q.text: q for q in AIQuestion.query...all()}", the answers
\* loaded with the questions).  A request without a user is answered at
\* once.
BeginSeed(slot) ==
    /\ inflight[slot] = Idle
    /\ IF ~LoggedIn(session)
       THEN /\ resp' = [op |-> "ai_test", method |-> "GET", status |-> "login"]
            /\ UNCHANGED inflight
       ELSE /\ inflight' = [inflight EXCEPT ![slot] =
                              [pc |-> "sync", questions |-> aiQuestions,
                               answers |-> aiAnswers]]
            /\ UNCHANGED resp
    /\ UNCHANGED <<aiQuestions, aiAnswers, aiResults, attempts, attemptAnswers,
                   submissions, uploads, session, now, published>>

\* GET /ai-test from the loop of ensure_ai_seed on: the loop decides on the
\* rows the request loaded at its query, writes to the store as it is now,
\* commits, and the form is rendered.
FinishSeed(slot) ==
    LET req == inflight[slot]
        st == SyncSeed([questions |-> aiQuestions, answers |-> aiAnswers,
                        nextAnswer |-> NextId(aiAnswers)],
                       1, req.questions, req.answers)
    IN  /\ req.pc = "sync"
        /\ aiQuestions' = st.questions
        /\ aiAnswers' = st.answers
        /\ resp' = [op |-> "ai_test", method |-> "GET", status |-> "form"]
        /\ inflight' = [inflight EXCEPT ![slot] = Idle]
        /\ UNCHANGED <<aiResults, attempts, attemptAnswers, submissions, uploads,
                       session, now, published>>

SeedRaceActors == {u \in Users : u.username \in {"alice", "bob"}}

\* Stores holding no seed question: see AiStores.
SeedRaceInit ==
    /\ \E st \in AiStores : aiQuestions = st.questions /\ aiAnswers = st.answers
    /\ aiResults = {}
    /\ attempts = {}
    /\ attemptAnswers = {}
    /\ submissions = {}
    /\ uploads = {}
    /\ session = NoSession
    /\ now = 0
    /\ published = TestIds
    /\ inflight = [slot \in Slots |-> Idle]
    /\ resp = [op |-> "none"]

SeedRaceNext ==
    \/ \E u \in SeedRaceActors : Login(u)
    \/ Logout
    \/ \E slot \in Slots : BeginSeed(slot)
    \/ \E slot \in Slots : FinishSeed(slot)

SpecSeedRace == SeedRaceInit /\ [][SeedRaceNext]_vars

(***************************************************************************)
(* C30: concurrent seeding stores every seed row once                      *)
(***************************************************************************)

\* The stored questions that carry the text of seed entry d.
StoredAs(d) == {q \in aiQuestions : q.text = d.text}

\* The stored answers with the given text under a question that carries the
\* text of seed entry d.
StoredAnswersAs(d, text) ==
    {a \in aiAnswers : a.text = text /\ \E q \in StoredAs(d) : a.question_id = q.id}

\* No request is being served and the last one served rendered the form.
SeedingDone ==
    /\ \A slot \in Slots : inflight[slot].pc = "idle"
    /\ resp.op = "ai_test" /\ resp.status = "form"

\* C30: when the requests that ran ensure_ai_seed on a store without seed
\* questions have finished, in whatever order their steps were taken, each
\* seed question text is stored once and each seed answer text once under
\* its question.
C30_SeedRowsStoredOnce ==
    SeedingDone =>
        \A i \in DOMAIN AI_QUESTION_SEED :
            LET d == AI_QUESTION_SEED[i]
            IN  /\ Cardinality(StoredAs(d)) = 1
                /\ \A j \in DOMAIN d.answers :
                      Cardinality(StoredAnswersAs(d, d.answers[j].text)) = 1

====
